---- MODULE Spec2Model ----
(***************************************************************************)
(* A model of the invoice parser: the PyMuPDF field extractor and          *)
(* line-item table parser (pymupdf_client/pdf_client.py), the section      *)
(* validators of InvoiceValidator (gemini_client/validator.py) and the     *)
(* helpers they call (helper.py).                                          *)
(*                                                                         *)
(* Python values are modelled as follows.  A str is a TLA+ string, read    *)
(* character by character; a dict is a function whose DOMAIN is its key    *)
(* set; a list is a sequence; a float is the exact binary64 value it       *)
(* holds (see the Float section); a regular expression is the pattern      *)
(* string of the source, compiled by ReCompile and run by a backtracking   *)
(* matcher that follows the priorities of Python's re module.              *)
(***************************************************************************)
EXTENDS Integers, Sequences, FiniteSets, TLC

(***************************************************************************)
(* Characters and str primitives                                           *)
(***************************************************************************)
Char(s, i) == SubSeq(s, i, i)

\* The printable ASCII characters in code-point order (32..126), without the
\* grave accent (96), which a TLA+ string cannot hold.
ASCII == " !\"#$%&'()*+,-./0123456789:;<=>?@ABCDEFGHIJKLMNOPQRSTUVWXYZ[\\]^_abcdefghijklmnopqrstuvwxyz{|}~"

\* the position of each character in ASCII, tabulated
OrdMap ==
    [c \in {Char(ASCII, k) : k \in 1..Len(ASCII)} |->
        CHOOSE k \in 1..Len(ASCII) : Char(ASCII, k) = c]

Ord(c) == OrdMap[c]

CharRange(a, b) == {Char(ASCII, k) : k \in Ord(a)..Ord(b)}

Digits == CharRange("0", "9")

UpperAZ == CharRange("A", "Z")

LowerAZ == CharRange("a", "z")

\* str.isspace() over the characters a TLA+ string can hold.
Whitespace == {" ", "\n", "\t", "\r", "\f"}

WordChars == Digits \cup UpperAZ \cup LowerAZ \cup {"_"}

\* str.lower() and str.upper() of one letter, tabulated
LowerMap == [c \in UpperAZ |-> Char(ASCII, Ord(c) - Ord("A") + Ord("a"))]

UpperMap == [c \in LowerAZ |-> Char(ASCII, Ord(c) - Ord("a") + Ord("A"))]

ToLower(c) == IF c \in UpperAZ THEN LowerMap[c] ELSE c

ToUpper(c) == IF c \in LowerAZ THEN UpperMap[c] ELSE c

SetMin(S) == CHOOSE m \in S : \A k \in S : m <= k

SetMax(S) == 0 - SetMin({0 - k : k \in S})

\* str.strip(): drop leading and trailing whitespace.
Strip(s) ==
    LET keep == {i \in 1..Len(s) : Char(s, i) \notin Whitespace}
    IN IF keep = {} THEN "" ELSE SubSeq(s, SetMin(keep), SetMax(keep))

\* str.lower(), by halves (the recursion is as deep as log2 of the length)
RECURSIVE LowerRange(_, _, _)
LowerRange(s, lo, hi) ==
    IF lo > hi THEN ""
    ELSE IF lo = hi THEN ToLower(Char(s, lo))
    ELSE LowerRange(s, lo, (lo + hi) \div 2) \o LowerRange(s, (lo + hi) \div 2 + 1, hi)

Lower(s) == LowerRange(s, 1, Len(s))

\* `sub in s` for strings
Contains(s, sub) ==
    \E i \in 1..(Len(s) - Len(sub) + 1) : SubSeq(s, i, i + Len(sub) - 1) = sub

\* The pieces of s between the cut positions of the set cuts (each cut is the
\* index of a separator character), in order.
RECURSIVE PiecesFrom(_, _, _)
PiecesFrom(s, from, cuts) ==
    LET rest == {c \in cuts : c >= from}
    IN IF rest = {} THEN <<SubSeq(s, from, Len(s))>>
       ELSE LET c == SetMin(rest)
            IN <<SubSeq(s, from, c - 1)>> \o PiecesFrom(s, c + 1, cuts)

\* str.splitlines() for "\n" line ends: no empty last line after a final "\n".
SplitLines(s) ==
    IF s = "" THEN <<>>
    ELSE LET ps == PiecesFrom(s, 1, {i \in 1..Len(s) : Char(s, i) = "\n"})
         IN IF Char(s, Len(s)) = "\n" THEN SubSeq(ps, 1, Len(ps) - 1) ELSE ps

\* str.split(): the maximal runs of non-whitespace characters.
Split(s) ==
    LET NonEmpty(p) == p # ""
    IN SelectSeq(PiecesFrom(s, 1, {i \in 1..Len(s) : Char(s, i) \in Whitespace}), NonEmpty)

(***************************************************************************)
(* Regular expressions (Python's re module)                                *)
(*                                                                         *)
(* ReCompile reads a pattern string as written in the source (a raw        *)
(* string, so "\\d" here is the two characters \d).  It covers the syntax  *)
(* the source uses: literals, escapes, ".", bracket sets with ranges and   *)
(* negation, the quantifiers * + ? {m} {m,} {m,n} and their lazy forms on  *)
(* a single character or set, groups, (?:...), (?=...), (?!...),           *)
(* (?<!...), (?<=...), alternation, ^ and $.                               *)
(***************************************************************************)
CharAt(s, i) == IF i \in 1..Len(s) THEN SubSeq(s, i, i) ELSE ""

DigitVal(c) == Ord(c) - Ord("0")

ReNode(t) ==
    [t |-> t, cs |-> {}, neg |-> FALSE, dot |-> FALSE, min |-> 1, max |-> 1,
     lazy |-> FALSE, idx |-> 0, alts |-> <<>>, ahead |-> TRUE, lit |-> ""]

\* The characters with a meaning of their own in a pattern.
ReSpecial == {"\\", "^", "$", ".", "|", "?", "*", "+", "(", ")", "[", "]", "{", "}"}

\* The end of the run of ordinary characters that starts at position i: the
\* position after its last character that no quantifier applies to.
LitEnd(p, i) ==
    LET stop == SetMin({j \in i..(Len(p) + 1) : CharAt(p, j) \in ReSpecial \cup {""}})
    IN IF CharAt(p, stop) \in {"*", "+", "?", "{"} THEN stop - 1 ELSE stop

\* The set a backslash escape stands for: a class, a control character, or
\* the escaped character itself.
EscapeSet(e) ==
    CASE e = "d" -> Digits
      [] e = "s" -> Whitespace
      [] e = "w" -> WordChars
      [] e = "n" -> {"\n"}
      [] e = "t" -> {"\t"}
      [] e = "r" -> {"\r"}
      [] e = "f" -> {"\f"}
      [] OTHER -> {e}

\* The items of a bracket set from position i up to the closing "]".
RECURSIVE ReSetItems(_, _, _)
ReSetItems(p, i, acc) ==
    LET c == Char(p, i)
    IN IF c = "]" THEN [cs |-> acc, pos |-> i + 1]
       ELSE IF c = "\\" THEN ReSetItems(p, i + 2, acc \cup EscapeSet(Char(p, i + 1)))
       ELSE IF CharAt(p, i + 1) = "-" /\ CharAt(p, i + 2) # "]"
            THEN ReSetItems(p, i + 3, acc \cup CharRange(c, Char(p, i + 2)))
       ELSE ReSetItems(p, i + 1, acc \cup {c})

\* The decimal number starting at position i.
RECURSIVE ReadInt(_, _, _)
ReadInt(p, i, acc) ==
    IF CharAt(p, i) \in Digits THEN ReadInt(p, i + 1, 10 * acc + DigitVal(Char(p, i)))
    ELSE [val |-> acc, pos |-> i]

\* The quantifier at position i, if there is one; max = -1 is "no upper limit".
ReQuant(p, i) ==
    LET Q(has, min, max, pos) == [has |-> has, min |-> min, max |-> max, pos |-> pos]
        UpTo(lo, hi) == Q(TRUE, lo.val, hi.val, hi.pos + 1)
        Braces(lo) ==
            IF CharAt(p, lo.pos) = "}" THEN Q(TRUE, lo.val, lo.val, lo.pos + 1)
            ELSE IF CharAt(p, lo.pos + 1) = "}" THEN Q(TRUE, lo.val, -1, lo.pos + 2)
            ELSE UpTo(lo, ReadInt(p, lo.pos + 1, 0))
        Base(c) ==
            CASE c = "*" -> Q(TRUE, 0, -1, i + 1)
              [] c = "+" -> Q(TRUE, 1, -1, i + 1)
              [] c = "?" -> Q(TRUE, 0, 1, i + 1)
              [] c = "{" -> Braces(ReadInt(p, i + 1, 0))
              [] OTHER -> Q(FALSE, 1, 1, i)
        Lazy(base) ==
            IF base.has /\ CharAt(p, base.pos) = "?"
            THEN [has |-> TRUE, min |-> base.min, max |-> base.max, lazy |-> TRUE,
                  pos |-> base.pos + 1]
            ELSE [has |-> base.has, min |-> base.min, max |-> base.max, lazy |-> FALSE,
                  pos |-> base.pos]
    IN Lazy(Base(CharAt(p, i)))

RECURSIVE ReAlts(_, _, _)
RECURSIVE ReSeq(_, _, _, _)
RECURSIVE ReAtom(_, _, _)

\* The alternatives from position i up to the closing ")" or the end; g is the
\* number the next capturing group gets.
ReAlts(p, i, g) ==
    LET Join(first, more) ==
            [alts |-> <<first.nodes>> \o more.alts, pos |-> more.pos, g |-> more.g]
        After(first) ==
            IF CharAt(p, first.pos) = "|"
            THEN Join(first, ReAlts(p, first.pos + 1, first.g))
            ELSE [alts |-> <<first.nodes>>, pos |-> first.pos, g |-> first.g]
    IN After(ReSeq(p, i, g, <<>>))

ReSeq(p, i, g, acc) ==
    LET Quantified(a, q) ==
            ReSeq(p, q.pos, a.g,
                  Append(acc, IF q.has
                              THEN [a.node EXCEPT !.min = q.min, !.max = q.max,
                                                  !.lazy = q.lazy]
                              ELSE a.node))
        Then(a) == Quantified(a, ReQuant(p, a.pos))
    IN IF i > Len(p) \/ Char(p, i) \in {"|", ")"} THEN [nodes |-> acc, pos |-> i, g |-> g]
       ELSE Then(ReAtom(p, i, g))

ReAtom(p, i, g) ==
    LET Holding(kind, inner) ==
            [node |-> IF kind \in {"cap", "non"}
                      THEN [ReNode("grp") EXCEPT !.idx = IF kind = "cap" THEN g ELSE 0,
                                                 !.alts = inner.alts]
                      ELSE [ReNode("look") EXCEPT !.ahead = kind \in {"la", "nla"},
                                                  !.neg = kind \in {"nla", "nlb"},
                                                  !.alts = inner.alts],
             pos |-> inner.pos + 1, g |-> inner.g]
        Grp(kind) ==
            Holding(kind,
                    ReAlts(p,
                           i + (IF kind = "cap" THEN 1
                                ELSE IF kind \in {"non", "la", "nla"} THEN 3 ELSE 4),
                           IF kind = "cap" THEN g + 1 ELSE g))
        Set(neg, items) ==
            [node |-> [ReNode("chr") EXCEPT !.cs = items.cs, !.neg = neg],
             pos |-> items.pos, g |-> g]
        Lit(c, e) ==
            IF e > i + 1
            THEN [node |-> [ReNode("lit") EXCEPT !.lit = SubSeq(p, i, e - 1),
                                                 !.min = e - i, !.max = e - i],
                  pos |-> e, g |-> g]
            ELSE [node |-> [ReNode("chr") EXCEPT !.cs = {c}], pos |-> i + 1, g |-> g]
        Atom(c) ==
            CASE c = "(" ->
                   Grp(IF CharAt(p, i + 1) # "?" THEN "cap"
                       ELSE IF CharAt(p, i + 2) = ":" THEN "non"
                       ELSE IF CharAt(p, i + 2) = "=" THEN "la"
                       ELSE IF CharAt(p, i + 2) = "!" THEN "nla"
                       ELSE IF CharAt(p, i + 3) = "!" THEN "nlb"
                       ELSE "lb")
              [] c = "[" ->
                   IF CharAt(p, i + 1) = "^" THEN Set(TRUE, ReSetItems(p, i + 2, {}))
                   ELSE Set(FALSE, ReSetItems(p, i + 1, {}))
              [] c = "\\" ->
                   [node |-> [ReNode("chr") EXCEPT !.cs = EscapeSet(Char(p, i + 1))],
                    pos |-> i + 2, g |-> g]
              [] c = "." -> [node |-> [ReNode("chr") EXCEPT !.dot = TRUE], pos |-> i + 1, g |-> g]
              [] c = "^" -> [node |-> ReNode("bol"), pos |-> i + 1, g |-> g]
              [] c = "$" -> [node |-> ReNode("eol"), pos |-> i + 1, g |-> g]
              [] OTHER -> Lit(c, LitEnd(p, i))
    IN Atom(Char(p, i))

\* re.compile(pattern): the pattern as one non-capturing group, and the number
\* of capturing groups.
ReCompile(p) ==
    LET Whole(r) == [top |-> [ReNode("grp") EXCEPT !.alts = r.alts], ng |-> r.g - 1]
    IN Whole(ReAlts(p, 1, 1))

\* The flags of a call: re.IGNORECASE, re.DOTALL, re.MULTILINE.
ReFlags(ic, dotall, ml) == [ic |-> ic, dotall |-> dotall, ml |-> ml]

NoFlags == ReFlags(FALSE, FALSE, FALSE)

\* Whether character c is accepted by the single-character node n.
ReCharOK(n, c, fl) ==
    IF n.dot THEN fl.dotall \/ c # "\n"
    ELSE (c \in n.cs \/ (fl.ic /\ (ToLower(c) \in n.cs \/ ToUpper(c) \in n.cs))) # n.neg

\* How many characters from pos on node n accepts in a row, up to n.max.
ReRunLen(n, s, pos, fl) ==
    LET Upto(last, bad) == IF bad = {} THEN last - pos + 1 ELSE SetMin(bad) - pos
        Within(last) == Upto(last, {j \in pos..last : ~ReCharOK(n, Char(s, j), fl)})
    IN Within(IF n.max < 0 \/ pos + n.max - 1 > Len(s) THEN Len(s) ELSE pos + n.max - 1)

\* The width of a fixed-width sequence of nodes (what a lookbehind holds).
RECURSIVE ReWidth(_, _)
ReWidth(nodes, i) ==
    IF i > Len(nodes) THEN 0
    ELSE (IF nodes[i].t \in {"chr", "lit"} THEN nodes[i].min
          ELSE IF nodes[i].t = "grp" THEN ReWidth(nodes[i].alts[1], 1)
          ELSE 0) + ReWidth(nodes, i + 1)

ReFail == [ok |-> FALSE, end |-> 0, caps |-> <<>>]

\* Whether the character at pos lets nodes[i..] start to match there: FALSE
\* only when the first node needs a character that is not the one at pos.
RECURSIVE ReCanStart(_, _, _, _, _)
ReCanStart(nodes, i, s, pos, fl) ==
    IF i > Len(nodes) THEN TRUE
    ELSE LET n == nodes[i] IN
      CASE n.t = "lit" ->
             LET c == CharAt(s, pos)
                 d == CharAt(n.lit, 1)
             IN c # "" /\ (c = d \/ (fl.ic /\ ToLower(c) = ToLower(d)))
        [] n.t = "chr" -> n.min = 0 \/ (pos <= Len(s) /\ ReCharOK(n, Char(s, pos), fl))
        [] n.t = "grp" ->
             \E a \in 1..Len(n.alts) :
                 n.alts[a] = <<>> \/ ReCanStart(n.alts[a], 1, s, pos, fl)
        [] OTHER -> TRUE

\* Of the tries of a quantified node (k characters taken, r the match of the
\* rest), the successful one a backtracking matcher finds first: the longest
\* for a greedy quantifier, the shortest for a lazy one.
RePick(lazy, tries) ==
    LET good == {x \in tries : x.r.ok}
    IN IF good = {} THEN ReFail
       ELSE (CHOOSE x \in good :
               x.k = IF lazy THEN SetMin({y.k : y \in good})
                     ELSE SetMax({y.k : y \in good})).r

RECURSIVE ReRun(_, _, _, _, _, _, _)
RECURSIVE ReTryAlts(_, _, _, _, _, _, _)

\* Match nodes[i..] at pos, then the frames of the continuation K; the result
\* is the first success in the order a backtracking matcher tries: a greedy
\* quantifier takes the longest run that lets the rest match, a lazy one the
\* shortest, and alternatives are tried left to right.
ReRun(nodes, i, s, pos, caps, K, fl) ==
    CASE i > Len(nodes) /\ K = <<>> -> [ok |-> TRUE, end |-> pos, caps |-> caps]
      [] i > Len(nodes) ->
           ReRun(K[1].nodes, K[1].i, s, pos,
                 IF K[1].close > 0 THEN [caps EXCEPT ![K[1].close] = <<K[1].start, pos>>]
                 ELSE caps,
                 Tail(K), fl)
      [] nodes[i].t = "chr" /\ nodes[i].min = nodes[i].max ->
           IF ReRunLen(nodes[i], s, pos, fl) < nodes[i].min THEN ReFail
           ELSE ReRun(nodes, i + 1, s, pos + nodes[i].min, caps, K, fl)
      [] nodes[i].t = "chr" ->
           RePick(nodes[i].lazy,
                  {[k |-> k, r |-> ReRun(nodes, i + 1, s, pos + k, caps, K, fl)] :
                     k \in {j \in nodes[i].min..ReRunLen(nodes[i], s, pos, fl) :
                              ReCanStart(nodes, i + 1, s, pos + j, fl)}})
      [] nodes[i].t = "lit" ->
           IF pos + nodes[i].min - 1 <= Len(s)
              /\ LET piece == SubSeq(s, pos, pos + nodes[i].min - 1)
                 IN piece = nodes[i].lit \/ (fl.ic /\ Lower(piece) = Lower(nodes[i].lit))
           THEN ReRun(nodes, i + 1, s, pos + nodes[i].min, caps, K, fl) ELSE ReFail
      [] nodes[i].t = "grp" /\ Len(nodes[i].alts) = 1 ->
           ReRun(nodes[i].alts[1], 1, s, pos, caps,
                 <<[nodes |-> nodes, i |-> i + 1, close |-> nodes[i].idx,
                    start |-> pos]>> \o K,
                 fl)
      [] nodes[i].t = "grp" ->
           ReTryAlts(nodes[i].alts, 1, s, pos, caps,
                     <<[nodes |-> nodes, i |-> i + 1, close |-> nodes[i].idx,
                        start |-> pos]>> \o K,
                     fl)
      [] nodes[i].t = "look" ->
           LET n == nodes[i]
               Decide(r) ==
                   IF (r.ok /\ (n.ahead \/ r.end = pos)) # n.neg
                   THEN ReRun(nodes, i + 1, s, pos, caps, K, fl) ELSE ReFail
               Behind(w) ==
                   IF pos - w < 1 THEN ReFail
                   ELSE ReTryAlts(n.alts, 1, s, pos - w, caps, <<>>, fl)
           IN Decide(IF n.ahead THEN ReTryAlts(n.alts, 1, s, pos, caps, <<>>, fl)
                     ELSE Behind(ReWidth(n.alts[1], 1)))
      [] nodes[i].t = "bol" ->
           IF pos = 1 \/ (fl.ml /\ Char(s, pos - 1) = "\n")
           THEN ReRun(nodes, i + 1, s, pos, caps, K, fl) ELSE ReFail
      [] nodes[i].t = "eol" ->
           IF pos = Len(s) + 1 \/ (pos = Len(s) /\ Char(s, pos) = "\n")
              \/ (fl.ml /\ CharAt(s, pos) = "\n")
           THEN ReRun(nodes, i + 1, s, pos, caps, K, fl) ELSE ReFail
      [] nodes[i].t = "eos" ->
           IF pos = Len(s) + 1 THEN ReRun(nodes, i + 1, s, pos, caps, K, fl) ELSE ReFail

ReTryAlts(alts, a, s, pos, caps, K, fl) ==
    IF a > Len(alts) THEN ReFail
    ELSE LET Else(r) == IF r.ok THEN r ELSE ReTryAlts(alts, a + 1, s, pos, caps, K, fl)
         IN Else(ReRun(alts[a], 1, s, pos, caps, K, fl))

ReAt(re, s, pos, fl, full) ==
    ReRun(IF full THEN <<re.top, ReNode("eos")>> ELSE <<re.top>>, 1, s, pos,
          [g \in 1..re.ng |-> <<0, 0>>], <<>>, fl)

\* pattern.match(s) / re.match(pattern, s, flags): a match at the start of s.
ReMatch(re, s, fl) == ReAt(re, s, 1, fl, FALSE)

\* pattern.fullmatch(s): a match of the whole of s.
ReFullMatch(re, s, fl) == ReAt(re, s, 1, fl, TRUE)

\* re.search(pattern, s, flags): the match at the leftmost position that has one.
ReSearchFrom(re, s, from, fl) ==
    LET Found(x) == [ok |-> TRUE, start |-> x.q, end |-> x.m.end, caps |-> x.m.caps]
        Leftmost(good) ==
            IF good = {} THEN [ok |-> FALSE, start |-> 0, end |-> 0, caps |-> <<>>]
            ELSE Found(CHOOSE y \in good : y.q = SetMin({z.q : z \in good}))
        Matching(tries) == Leftmost({x \in tries : x.m.ok})
    IN Matching({[q |-> q, m |-> ReAt(re, s, q, fl, FALSE)] :
                   q \in {j \in from..(Len(s) + 1) : ReCanStart(<<re.top>>, 1, s, j, fl)}})

ReSearch(re, s, fl) == ReSearchFrom(re, s, 1, fl)

\* match.group(g): the text group g matched.
Group(m, s, g) == SubSeq(s, m.caps[g][1], m.caps[g][2] - 1)

\* re.sub(pattern, repl, s) for a pattern that matches no empty string.
RECURSIVE ReSubFrom(_, _, _, _, _)
ReSubFrom(re, repl, s, from, fl) ==
    LET After(m) ==
            IF ~m.ok THEN SubSeq(s, from, Len(s))
            ELSE SubSeq(s, from, m.start - 1) \o repl \o ReSubFrom(re, repl, s, m.end, fl)
    IN After(ReSearchFrom(re, s, from, fl))

ReSub(re, repl, s, fl) == ReSubFrom(re, repl, s, 1, fl)

\* re.split(pattern, s, flags) for a pattern that matches only the empty
\* string (a lookahead): s is cut at every position where it matches, the
\* first piece being "" when it matches at the start.
RECURSIVE ReSplitFrom(_, _, _)
ReSplitFrom(s, from, cuts) ==
    LET rest == {c \in cuts : c >= from}
    IN IF rest = {} THEN <<SubSeq(s, from, Len(s))>>
       ELSE LET c == SetMin(rest)
            IN <<SubSeq(s, from, c - 1)>> \o ReSplitFrom(s, c, cuts \ {c})

ReSplit(re, s, fl) ==
    ReSplitFrom(s, 1, {q \in 1..Len(s) : ReAt(re, s, q, fl, FALSE).ok})

(***************************************************************************)
(* Natural numbers of any size                                             *)
(*                                                                         *)
(* A binary64 significand has 53 bits and a product of two has 106, more   *)
(* than a TLC integer holds, so the float arithmetic below is done on      *)
(* naturals written as sequences of 15-bit limbs, least significant first, *)
(* with no leading zero limb (<<>> is 0).                                  *)
(***************************************************************************)
LimbBase == 2 ^ 15

RECURSIVE BTrim(_)
BTrim(a) == IF a = <<>> \/ a[Len(a)] # 0 THEN a ELSE BTrim(SubSeq(a, 1, Len(a) - 1))

RECURSIVE BFromInt(_)
BFromInt(n) == IF n = 0 THEN <<>> ELSE <<n % LimbBase>> \o BFromInt(n \div LimbBase)

RECURSIVE BToInt(_)
BToInt(a) == IF a = <<>> THEN 0 ELSE a[1] + LimbBase * BToInt(Tail(a))

Limb(a, i) == IF i <= Len(a) THEN a[i] ELSE 0

RECURSIVE BAddFrom(_, _, _, _)
BAddFrom(a, b, i, carry) ==
    IF i > Len(a) /\ i > Len(b) THEN (IF carry = 0 THEN <<>> ELSE <<carry>>)
    ELSE LET t == Limb(a, i) + Limb(b, i) + carry
         IN <<t % LimbBase>> \o BAddFrom(a, b, i + 1, t \div LimbBase)

BAdd(a, b) == BAddFrom(a, b, 1, 0)

\* a - b for a >= b
RECURSIVE BSubFrom(_, _, _, _)
BSubFrom(a, b, i, borrow) ==
    IF i > Len(a) THEN <<>>
    ELSE LET t == Limb(a, i) - Limb(b, i) - borrow
         IN <<(t + LimbBase) % LimbBase>> \o BSubFrom(a, b, i + 1, IF t < 0 THEN 1 ELSE 0)

BSub(a, b) == BTrim(BSubFrom(a, b, 1, 0))

\* a * m for 0 <= m <= LimbBase
RECURSIVE BMulSmallFrom(_, _, _, _)
BMulSmallFrom(a, m, i, carry) ==
    IF i > Len(a) THEN (IF carry = 0 THEN <<>> ELSE <<carry>>)
    ELSE LET t == a[i] * m + carry
         IN <<t % LimbBase>> \o BMulSmallFrom(a, m, i + 1, t \div LimbBase)

BMulSmall(a, m) == BTrim(BMulSmallFrom(a, m, 1, 0))

BShlLimbs(a, j) == IF a = <<>> THEN <<>> ELSE [i \in 1..j |-> 0] \o a

RECURSIVE BMulFrom(_, _, _)
BMulFrom(a, b, j) ==
    IF j > Len(b) THEN <<>>
    ELSE BAdd(BShlLimbs(BMulSmall(a, b[j]), j - 1), BMulFrom(a, b, j + 1))

BMul(a, b) == BMulFrom(a, b, 1)

\* -1, 0 or 1 as a < b, a = b, a > b
BCmp(a, b) ==
    IF Len(a) # Len(b) THEN (IF Len(a) < Len(b) THEN -1 ELSE 1)
    ELSE LET diff == {i \in 1..Len(a) : a[i] # b[i]}
         IN IF diff = {} THEN 0
            ELSE IF a[SetMax(diff)] < b[SetMax(diff)] THEN -1 ELSE 1

\* a * 2^k
BShl(a, k) == BShlLimbs(BMulSmall(a, 2 ^ (k % 15)), k \div 15)

\* quotient and remainder of a by d, for 0 < d <= LimbBase
RECURSIVE BDivSmallFrom(_, _, _, _)
BDivSmallFrom(a, d, i, rem) ==
    IF i = 0 THEN [q |-> <<>>, r |-> rem]
    ELSE LET t == rem * LimbBase + a[i]
             Above(lower) == [q |-> Append(lower.q, t \div d), r |-> lower.r]
         IN Above(BDivSmallFrom(a, d, i - 1, t % d))

BDivSmall(a, d) ==
    LET Trimmed(res) == [q |-> BTrim(res.q), r |-> res.r]
    IN Trimmed(BDivSmallFrom(a, d, Len(a), 0))

\* floor(a / 2^k)
BShr(a, k) ==
    IF k \div 15 >= Len(a) THEN <<>>
    ELSE BDivSmall(SubSeq(a, k \div 15 + 1, Len(a)), 2 ^ (k % 15)).q

BBitLen(a) ==
    IF a = <<>> THEN 0
    ELSE 15 * (Len(a) - 1) + (CHOOSE b \in 1..15 : 2 ^ (b - 1) <= a[Len(a)] /\ a[Len(a)] < 2 ^ b)

BIsOdd(a) == a # <<>> /\ a[1] % 2 = 1

\* the number of trailing zero bits of a > 0
BTrailingZeros(a) ==
    LET j == SetMin({i \in 1..Len(a) : a[i] # 0})
    IN 15 * (j - 1) + SetMax({b \in 0..14 : a[j] % (2 ^ b) = 0})

(***************************************************************************)
(* Python float: IEEE-754 binary64, round to nearest, ties to even         *)
(*                                                                         *)
(* A non-negative float is the record [n, k] of its exact value n / 2^k,   *)
(* with n odd (or n = 0 and k = 0), so two floats are equal exactly when   *)
(* their records are.  The amounts of an invoice are far from the          *)
(* overflow and subnormal ranges, which are not modelled; neither are      *)
(* negative numbers, which no token of the model denotes.                  *)
(***************************************************************************)
DNorm(n, k) ==
    IF n = <<>> THEN [n |-> <<>>, k |-> 0]
    ELSE LET Odd(tz) == [n |-> BShr(n, tz), k |-> k - tz] IN Odd(BTrailingZeros(n))

\* n with its last d bits dropped, rounded to nearest, ties to even
BRoundShr(n, d) ==
    IF d <= 0 THEN BShl(n, -d)
    ELSE LET Nearest(q, cmp) ==
                 IF cmp > 0 \/ (cmp = 0 /\ BIsOdd(q)) THEN BAdd(q, <<1>>) ELSE q
             Kept(q) == Nearest(q, BCmp(BSub(n, BShl(q, d)), BShl(<<1>>, d - 1)))
         IN Kept(BShr(n, d))

\* The float nearest to n / 2^k.
DRound(n, k) ==
    LET Dropping(d) == IF d <= 0 THEN DNorm(n, k) ELSE DNorm(BRoundShr(n, d), k - d)
    IN Dropping(BBitLen(n) - 53)

\* The float nearest to a / b (a a natural of any size, 0 < b <= LimbBase):
\* the quotient is taken to more than 55 bits, with a sticky last bit.
DFromRatio(a, b) ==
    LET Sticky(qr) == DRound(BAdd(BMulSmall(qr.q, 2), IF qr.r = 0 THEN <<>> ELSE <<1>>), 81)
    IN Sticky(BDivSmall(BShl(a, 80), b))

DFromInt(i) == DNorm(BFromInt(i), 0)

\* 0.0
DZero == [n |-> <<>>, k |-> 0]

DAdd(x, y) ==
    LET k == IF x.k > y.k THEN x.k ELSE y.k
    IN DRound(BAdd(BShl(x.n, k - x.k), BShl(y.n, k - y.k)), k)

\* x - y for x >= y
DSub(x, y) ==
    LET k == IF x.k > y.k THEN x.k ELSE y.k
    IN DRound(BSub(BShl(x.n, k - x.k), BShl(y.n, k - y.k)), k)

DMul(x, y) == DRound(BMul(x.n, y.n), x.k + y.k)

\* int(x): the integer part, as a natural
DTrunc(x) == IF x.k > 0 THEN BShr(x.n, x.k) ELSE BShl(x.n, -x.k)

\* round(x): the nearest integer, ties to even, as a natural
DRoundToInt(x) == BRoundShr(x.n, x.k)

\* round(x, 2): the decimal with 2 places nearest to the exact value of x
\* (ties to even), converted back to the nearest float.
DRound2(x) == DFromRatio(BRoundShr(BMulSmall(x.n, 100), x.k), 100)

(***************************************************************************)
(* float(str) and the str methods the helpers use                          *)
(***************************************************************************)
\* The digits of t from position i on, as one natural (a "." is skipped).
RECURSIVE DigitsToBig(_, _, _)
DigitsToBig(t, i, acc) ==
    IF i > Len(t) THEN acc
    ELSE IF Char(t, i) = "." THEN DigitsToBig(t, i + 1, acc)
    ELSE DigitsToBig(t, i + 1, BAdd(BMulSmall(acc, 10), BFromInt(DigitVal(Char(t, i)))))

\* float(s) for a str s.  ok = FALSE stands for the ValueError Python raises
\* when s, stripped, is not a number.  The numbers read are the unsigned
\* decimals (digits with at most one ".", up to 4 places); signs, exponents,
\* underscores, "inf" and "nan" are spelled by no token of the model.
FloatOfDecimal(t, dots, digs) ==
    IF digs = {} \/ Cardinality(dots) > 1 \/ Cardinality(digs) + Cardinality(dots) # Len(t)
    THEN [ok |-> FALSE, val |-> DZero]
    ELSE [ok |-> TRUE,
          val |-> DFromRatio(DigitsToBig(t, 1, <<>>),
                             10 ^ (IF dots = {} THEN 0 ELSE Len(t) - SetMin(dots)))]

FloatOfStripped(t) ==
    FloatOfDecimal(t, {i \in 1..Len(t) : Char(t, i) = "."},
                   {i \in 1..Len(t) : Char(t, i) \in Digits})

FloatOfStr(s) == FloatOfStripped(Strip(s))

\* str.replace(old, new)
RECURSIVE ReplaceFrom(_, _, _, _)
ReplaceFrom(s, old, new, from) ==
    LET First(hits) ==
            IF hits = {} THEN SubSeq(s, from, Len(s))
            ELSE SubSeq(s, from, SetMin(hits) - 1) \o new
                 \o ReplaceFrom(s, old, new, SetMin(hits) + Len(old))
    IN First({i \in from..(Len(s) - Len(old) + 1) : SubSeq(s, i, i + Len(old) - 1) = old})

Replace(s, old, new) == ReplaceFrom(s, old, new, 1)

\* str.title(): a letter is upper-cased after a non-letter, lower-cased after
\* a letter.
RECURSIVE TitleRange(_, _, _)
TitleRange(s, lo, hi) ==
    IF lo > hi THEN ""
    ELSE IF lo = hi
    THEN (IF lo > 1 /\ Char(s, lo - 1) \in UpperAZ \cup LowerAZ THEN ToLower(Char(s, lo))
          ELSE ToUpper(Char(s, lo)))
    ELSE TitleRange(s, lo, (lo + hi) \div 2) \o TitleRange(s, (lo + hi) \div 2 + 1, hi)

Title(s) == TitleRange(s, 1, Len(s))

(***************************************************************************)
(* helper.py                                                               *)
(***************************************************************************)
LowNumwords ==
    <<"one", "two", "three", "four", "five", "six", "seven", "eight", "nine", "ten",
      "eleven", "twelve", "thirteen", "fourteen", "fifteen", "sixteen", "seventeen",
      "eighteen", "nineteen">>

TensNumwords ==
    <<"ten", "twenty", "thirty", "forty", "fifty", "sixty", "seventy", "eighty", "ninety">>

\* num2words(n, lang="en_IN") for 0 <= n < 10^9: the English words with the
\* Indian units (crore, lakh, thousand, hundred), tens and ones joined by
\* "-", a last part below 100 joined by " and ", other parts by ", ".
RECURSIVE Num2WordsPos(_)
Num2WordsPos(n) ==
    LET unit == IF n >= 10000000 THEN 10000000
                ELSE IF n >= 100000 THEN 100000
                ELSE IF n >= 1000 THEN 1000 ELSE 100
        name == IF unit = 10000000 THEN "crore"
                ELSE IF unit = 100000 THEN "lakh"
                ELSE IF unit = 1000 THEN "thousand" ELSE "hundred"
        rest == n % unit
    IN IF n < 20 THEN LowNumwords[n]
       ELSE IF n < 100
       THEN TensNumwords[n \div 10] \o (IF n % 10 = 0 THEN "" ELSE "-" \o LowNumwords[n % 10])
       ELSE Num2WordsPos(n \div unit) \o " " \o name
            \o (IF rest = 0 THEN ""
                ELSE (IF rest < 100 THEN " and " ELSE ", ") \o Num2WordsPos(rest))

num2words(n) == IF n = 0 THEN "zero" ELSE Num2WordsPos(n)

\* number_to_words_inr(amount) for a float amount >= 0
WordsOf(n) == Title(Replace(num2words(n), "-", " "))

\* the four replace calls and the second title() of rupees_words
CleanWords(rupees_words) ==
    Title(Replace(Replace(Replace(Replace(rupees_words, "-", ""), ",", ""),
                          " and ", " "), " And ", " "))

\* the two return statements
WordsSentence(rupees_words, paise) ==
    IF paise > 0
    THEN "Rupees " \o rupees_words \o " and " \o WordsOf(paise) \o " Paisa Only."
    ELSE "Rupees " \o rupees_words \o " and Paisa Only."

\* The paise with the fraction cut off instead of rounded.
PaiseCut(amount, rupees) ==
    BToInt(DTrunc(DMul(DSub(amount, DFromInt(rupees)), DFromInt(100))))

\* paise = round((amount - rupees) * 100)
PaiseOf(amount, rupees) ==
    BToInt(DRoundToInt(DMul(DSub(amount, DFromInt(rupees)), DFromInt(100))))

WordsOfParts(amount, rupees) ==
    WordsSentence(CleanWords(WordsOf(rupees)), PaiseOf(amount, rupees))

number_to_words_inr(amount) == WordsOfParts(amount, BToInt(DTrunc(amount)))

\* is_value_present(value) for a str value
is_value_present(value) == ~(Strip(value) = "")

(***************************************************************************)
(* gemini_client/validator.py: ValidationConstants                        *)
(***************************************************************************)
\* A GSTIN pattern with any character where the check character Z stands.
GSTIN_ANY_CHECK == "^[0-9]{2}[A-Z]{5}[0-9]{4}[A-Z]{1}[1-9A-Z]{1}.[0-9A-Z]{1}$"

GSTIN_PATTERN == "^[0-9]{2}[A-Z]{5}[0-9]{4}[A-Z]{1}[1-9A-Z]{1}Z[0-9A-Z]{1}$"
PAN_PATTERN == "^[A-Z]{5}[0-9]{4}[A-Z]{1}$"
TAN_PATTERN == "^[A-Z]{4}[0-9]{5}[A-Z]{1}$"
IRN_PATTERN == "^[a-fA-F0-9]{64}$"
DATE_PATTERN == "^(0[1-9]|[12][0-9]|3[01])\\s(Jan|Feb|Mar|Apr|May|Jun|Jul|Aug|Sep|Oct|Nov|Dec)\\s\\d{4}$"
EMAIL_ID == "enquiry@geniushrtech.com"
WEBSITE == "www.geniushrtech.com"
TAX_INVOICE_TEXT == "TAX INVOICE"
BENEFICIARY_TEXT == "Bank details for money transfer as follows"
NOTE_TEXT == "1. Please check the calculation/attendance/amount of the bill and inform us within 48 hours in case of any discrepancy, to avoid last minute rush. Any changes reported after 48 hours will be adjusted along with the next month's bill.\n2. As per the IT rule u/s 194JB, if our Invoices value in a year is more than Rs. 50,000/-, then you may deduct TDS @ 0.50% Excluding GST\nFor any kind of GST related query, please contact at : gstsupport@geniushrtech.com\n"
COMPANY_NAME == "Genius HRTech Limited"
FORMER_NAME == "(Formerly known as Genius Consultants Limited)"

\* the patterns as re.match compiles them (compiled once, as re caches them)
GSTIN_RE == ReCompile(GSTIN_PATTERN)
PAN_RE == ReCompile(PAN_PATTERN)
TAN_RE == ReCompile(TAN_PATTERN)
IRN_RE == ReCompile(IRN_PATTERN)
DATE_RE == ReCompile(DATE_PATTERN)

(***************************************************************************)
(* State.  errors and passes are the two mappings of one InvoiceValidator  *)
(* (section -> list of messages).  call is the operation that ran last and *)
(* its arguments, out the appends that call made (in program order, each   *)
(* tagged with the ladder that made it: its key, and for a line item the   *)
(* position of the item, else 0), raised the exception that ended          *)
(* it ("" when it returned), result its return value.  text and images are *)
(* what a PyMuPDFClient read from its PDF.  runs counts the validation     *)
(* runs an InvoiceProcessor made since it was constructed.  requests holds *)
(* the API requests in flight: for each its extracted data, the validator  *)
(* its _validate_data call constructed, and how far that call has come.    *)
(* held is what the caller of an InvoiceProcessor holds: the results its   *)
(* validate_data returned, each as it reads now (a result is the pair of   *)
(* mappings of the validator itself, not a copy of them).                  *)
(* files is the disk of the service: the temporary files on it, the        *)
(* processed log (BillID -> status) and the writes of that log so far.     *)
(***************************************************************************)
VARIABLES errors, passes, call, out, raised, result, text, images, runs, requests,
          held, files

vars ==
  <<errors, passes, call, out, raised, result, text, images, runs, requests, held, files>>

\* the files on disk when the service starts: no temporary file, and no
\* processed log (load_processed_log returns {} when the file is not there);
\* written is the list of the writes of the log, oldest first
NoFiles == [tmp |-> {}, log |-> <<>>, written |-> <<>>]

\* the keys of self.errors and of self.passes
Sections ==
  {"letter_head", "tax_invoice", "bill_to", "invoice", "resource_and_bill",
   "note", "beneficiary", "qr_code", "digital_signature"}

\* Python's None: a value that is no str of the model (no document and no
\* argument contains it)
None == "<None>"

\* self.errors[sec].append(msg), made by the ladder of `key'
Err(sec, key, msg) ==
  <<[to |-> "errors", section |-> sec, key |-> key, item |-> 0, msg |-> msg]>>

\* self.passes[sec].append(msg), made by the ladder of `key'
Pass(sec, key, msg) ==
  <<[to |-> "passes", section |-> sec, key |-> key, item |-> 0, msg |-> msg]>>

\* every message of the list, whatever the section of its append
AppendedAnywhere(log, to, sec) ==
  LET Mine(a) == a.to = to
      sel == SelectSeq(log, Mine)
  IN  [i \in 1..Len(sel) |-> sel[i].msg]

\* the messages a sequence of appends adds to one list
Appended(log, to, sec) ==
  LET Mine(a) == a.to = to /\ a.section = sec
      sel == SelectSeq(log, Mine)
  IN  [i \in 1..Len(sel) |-> sel[i].msg]

\* the state after a method of the validator ran: its appends are in the
\* lists, whether it returned or raised
Ran(op, args, log, exc) ==
  /\ errors' = [sec \in Sections |-> errors[sec] \o Appended(log, "errors", sec)]
  /\ passes' = [sec \in Sections |-> passes[sec] \o Appended(log, "passes", sec)]
  /\ call' = [op |-> op, args |-> args]
  /\ out' = log
  /\ raised' = exc
  /\ result' = None
  /\ UNCHANGED <<text, images, runs, requests, held, files>>

\* InvoiceValidator.__init__
InvoiceValidator__init__ ==
  /\ errors' = [sec \in Sections |-> <<>>]
  /\ passes' = [sec \in Sections |-> <<>>]
  /\ call' = [op |-> "__init__", args |-> <<>>]
  /\ out' = <<>>
  /\ raised' = ""
  /\ result' = None
  /\ UNCHANGED <<text, images, runs, requests, held, files>>

\* A ladder that says nothing about an empty value.
KeyLadderSilent(sec, d, key, missing, empty, present) ==
  IF key \notin DOMAIN d THEN Err(sec, key, missing)
  ELSE IF d[key] = "" THEN <<>>
  ELSE Pass(sec, key, present)

(***************************************************************************)
(* The if/elif ladders of the section validators.  Every elif condition of *)
(* the source is kept: a ladder none of whose conditions holds appends     *)
(* nothing.                                                                *)
(***************************************************************************)
\* if key not in d / elif key in d: if is_value_present(d[key]) != True /
\* elif is_value_present(d[key]) == True: <present>
KeyLadder(sec, d, key, missing, empty, present) ==
  IF key \notin DOMAIN d THEN Err(sec, key, missing)
  ELSE IF key \in DOMAIN d THEN
    IF is_value_present(d[key]) # TRUE THEN Err(sec, key, empty)
    ELSE IF is_value_present(d[key]) = TRUE THEN present
    ELSE <<>>
  ELSE <<>>

\* if v != expected / elif v == expected
ExactCheck(sec, key, v, expected, mismatch, ok) ==
  IF v # expected THEN Err(sec, key, mismatch)
  ELSE IF v = expected THEN Pass(sec, key, ok)
  ELSE <<>>

\* if not re.match(pattern, v) / elif re.match(pattern, v)
PatternCheck(sec, key, v, re, invalid, ok) ==
  LET Ladder(match) ==
        IF ~match.ok THEN Err(sec, key, invalid)
        ELSE IF match.ok THEN Pass(sec, key, ok)
        ELSE <<>>
  IN  Ladder(ReMatch(re, v, NoFlags))

\* if v not in NOTE_TEXT / elif v in NOTE_TEXT
NoteCheck(sec, key, v, mismatch, ok) ==
  IF ~Contains(NOTE_TEXT, v) THEN Err(sec, key, mismatch)
  ELSE IF Contains(NOTE_TEXT, v) THEN Pass(sec, key, ok)
  ELSE <<>>

\* if is_value_present(flag) != True / elif ... == True: if flag != "True" /
\* elif flag == "True"
FlagCheck(sec, flag, missing, invalid, ok) ==
  IF is_value_present(flag) # TRUE THEN Err(sec, sec, missing)
  ELSE IF is_value_present(flag) = TRUE THEN
    IF flag # "True" THEN Err(sec, sec, invalid)
    ELSE IF flag = "True" THEN Pass(sec, sec, ok)
    ELSE <<>>
  ELSE <<>>

(***************************************************************************)
(* The section validators that take one argument                           *)
(***************************************************************************)
\* the appends of InvoiceValidator.validate_letter_head, lines 86-157
validate_letter_head_log(letter_head) ==
     KeyLadder("letter_head", letter_head, "company_name",
      "Company name key is missing in letter head.",
      "Company name value is missing or empty in letter head.",
      ExactCheck("letter_head", "company_name", letter_head["company_name"], COMPANY_NAME,
        "Company name does not match the expected company name.",
        "Company name is present and matches the expected value."))
  \o KeyLadder("letter_head", letter_head, "former_company_name",
      "Former company name key is missing in letter head.",
      "Former company name value is missing or empty in letter head.",
      IF Contains(letter_head["former_company_name"], "\n")
        THEN Err("letter_head", "former_company_name", "Former company name contains invalid newline characters.")
        ELSE IF ~Contains(letter_head["former_company_name"], "\n") THEN
        ExactCheck("letter_head", "former_company_name", letter_head["former_company_name"], FORMER_NAME,
        "Former company name does not match the expected value.",
        "Former company name is present and matches the expected value.")
        ELSE <<>>)
  \o KeyLadder("letter_head", letter_head, "gstin",
      "GSTIN key is missing in letter head.",
      "GSTIN value is missing or empty in letter head.",
      PatternCheck("letter_head", "gstin", letter_head["gstin"], GSTIN_RE,
        "GSTIN format is invalid in letter head.",
        "GSTIN is present and format is valid."))
  \o KeyLadder("letter_head", letter_head, "email",
      "Email ID key is missing in letter head.",
      "Email ID value is missing or empty in letter head.",
      ExactCheck("letter_head", "email", letter_head["email"], EMAIL_ID,
        "Email ID does not match the expected email address.",
        "Email ID is present and matches the expected value."))
  \o KeyLadder("letter_head", letter_head, "website",
      "Website key is missing in letter head.",
      "Website value is missing or empty in letter head.",
      ExactCheck("letter_head", "website", letter_head["website"], WEBSITE,
        "Website does not match the expected URL.",
        "Website is present and matches the expected value."))

\* InvoiceValidator.validate_letter_head
validate_letter_head(letter_head) ==
  Ran("validate_letter_head", <<letter_head>>, validate_letter_head_log(letter_head), "")

\* the appends of InvoiceValidator.validate_tax_invoice, lines 159-190
validate_tax_invoice_log(tax_invoice) ==
     KeyLadder("tax_invoice", tax_invoice, "pan_no",
      "PAN number key is missing in tax invoice.",
      "PAN number value is missing or empty in tax invoice.",
      PatternCheck("tax_invoice", "pan_no", tax_invoice["pan_no"], PAN_RE,
        "PAN number format is invalid.",
        "PAN number is present and format is valid."))
  \o KeyLadder("tax_invoice", tax_invoice, "tan_no",
      "TAN number key is missing in tax invoice.",
      "TAN number value is missing or empty in tax invoice.",
      PatternCheck("tax_invoice", "tan_no", tax_invoice["tan_no"], TAN_RE,
        "TAN number format is invalid.",
        "TAN number is present and format is valid."))

\* InvoiceValidator.validate_tax_invoice
validate_tax_invoice(tax_invoice) ==
  Ran("validate_tax_invoice", <<tax_invoice>>, validate_tax_invoice_log(tax_invoice), "")

\* the appends of InvoiceValidator.validate_bill_to_details, lines 192-275
validate_bill_to_details_log(bill_to) ==
     KeyLadder("bill_to", bill_to, "company_name",
      "Company name key is missing in bill-to details.",
      "Company name value is missing or empty in bill-to details.",
      Pass("bill_to", "company_name", "Company name is present in bill-to details."))
  \o KeyLadder("bill_to", bill_to, "address",
      "Address key is missing in bill-to details.",
      "Address value is missing or empty in bill-to details.",
      Pass("bill_to", "address", "Address is present in bill-to details."))
  \o KeyLadder("bill_to", bill_to, "gstin",
      "GSTIN key is missing in bill-to details.",
      "GSTIN value is missing or empty in bill-to details.",
      PatternCheck("bill_to", "gstin", bill_to["gstin"], GSTIN_RE,
        "GSTIN format is invalid in bill-to details.",
        "GSTIN is present and format is valid in bill-to details."))
  \o KeyLadder("bill_to", bill_to, "pan_no",
      "PAN number key is missing in bill-to details.",
      "PAN number value is missing or empty in bill-to details.",
      PatternCheck("bill_to", "pan_no", bill_to["pan_no"], PAN_RE,
        "PAN number format is invalid in bill-to details.",
        "PAN number is present and format is valid in bill-to details."))
  \o KeyLadder("bill_to", bill_to, "tan_no",
      "TAN number key is missing in bill-to details.",
      "TAN number value is missing or empty in bill-to details.",
      PatternCheck("bill_to", "tan_no", bill_to["tan_no"], TAN_RE,
        "TAN number format is invalid in bill-to details.",
        "TAN number is present and format is valid in bill-to details."))
  \o KeyLadder("bill_to", bill_to, "place_of_supply",
      "Place of supply key is missing in bill-to details.",
      "Place of supply value is missing or empty in bill-to details.",
      Pass("bill_to", "place_of_supply", "Place of supply is present in bill-to details."))
  \o KeyLadder("bill_to", bill_to, "irn_no",
      "IRN number key is missing in bill-to details.",
      "IRN number value is missing or empty in bill-to details.",
      PatternCheck("bill_to", "irn_no", bill_to["irn_no"], IRN_RE,
        "IRN number format is invalid in bill-to details.",
        "IRN number is present and format is valid in bill-to details."))

\* InvoiceValidator.validate_bill_to_details
validate_bill_to_details(bill_to) ==
  Ran("validate_bill_to_details", <<bill_to>>, validate_bill_to_details_log(bill_to), "")

\* the appends of InvoiceValidator.validate_invoice_details, lines 277-321
validate_invoice_details_log(invoice) ==
     KeyLadder("invoice", invoice, "date",
      "Date key is missing in invoice details.",
      "Date value is missing or empty in invoice details.",
      PatternCheck("invoice", "date", invoice["date"], DATE_RE,
        "Date format is invalid in invoice details.",
        "Date is present and format is valid in invoice details."))
  \o KeyLadder("invoice", invoice, "invoice_no",
      "Invoice number key is missing in invoice details.",
      "Invoice number value is missing or empty in invoice details.",
      Pass("invoice", "invoice_no", "Invoice number is present in invoice details."))
  \o KeyLadder("invoice", invoice, "service_month",
      "Service month key is missing in invoice details.",
      "Service month value is missing or empty in invoice details.",
      Pass("invoice", "service_month", "Service month is present in invoice details."))
  \o (IF "lower_tds_cert_no" \notin DOMAIN invoice
      THEN Err("invoice", "lower_tds_cert_no", "Lower TDS certificate number key is missing in invoice details.")
      ELSE IF "lower_tds_cert_no" \in DOMAIN invoice
      THEN Pass("invoice", "lower_tds_cert_no", "Lower TDS certificate number key is present in invoice details.")
      ELSE <<>>)

\* InvoiceValidator.validate_invoice_details
validate_invoice_details(invoice) ==
  Ran("validate_invoice_details", <<invoice>>, validate_invoice_details_log(invoice), "")

\* the appends of InvoiceValidator.validate_note, lines 522-565
validate_note_log(note) ==
     KeyLadder("note", note, "1",
      "Note point 1 key is missing.",
      "Note point 1 value is missing or empty.",
      NoteCheck("note", "1", note["1"],
        "Note point 1 content does not match expected text.",
        "Note point 1 is present and valid."))
  \o KeyLadder("note", note, "2",
      "Note point 2 key is missing.",
      "Note point 2 value is missing or empty.",
      NoteCheck("note", "2", note["2"],
        "Note point 2 content does not match expected text.",
        "Note point 2 is present and valid."))
  \o KeyLadder("note", note, "post_script",
      "Post script key is missing.",
      "Post script value is missing or empty.",
      NoteCheck("note", "post_script", note["post_script"],
        "Post script content does not match expected text.",
        "Post script is present and valid."))

\* InvoiceValidator.validate_note
validate_note(note) ==
  Ran("validate_note", <<note>>, validate_note_log(note), "")

\* the appends of InvoiceValidator.validate_beneficiary_details, lines 567-616
validate_beneficiary_details_log(beneficiary) ==
     KeyLadder("beneficiary", beneficiary, "beneficiary_name",
      "Beneficiary name key is missing.",
      "Beneficiary name value is missing or empty.",
      Pass("beneficiary", "beneficiary_name", "Beneficiary name is present."))
  \o KeyLadder("beneficiary", beneficiary, "account_no",
      "Account number key is missing.",
      "Account number value is missing or empty.",
      Pass("beneficiary", "account_no", "Account number is present."))
  \o KeyLadder("beneficiary", beneficiary, "ifsc_code",
      "IFSC code key is missing.",
      "IFSC code value is missing or empty.",
      Pass("beneficiary", "ifsc_code", "IFSC code is present."))
  \o KeyLadder("beneficiary", beneficiary, "country",
      "Country key is missing.",
      "Country value is missing or empty.",
      Pass("beneficiary", "country", "Country is present."))

\* InvoiceValidator.validate_beneficiary_details
validate_beneficiary_details(beneficiary) ==
  Ran("validate_beneficiary_details", <<beneficiary>>, validate_beneficiary_details_log(beneficiary), "")

\* the appends of InvoiceValidator.validate_qr_code, lines 618-633
validate_qr_code_log(qr_code) ==
     FlagCheck("qr_code", qr_code,
      "QR code flag is missing.",
      "QR code flag is present but marked as invalid.",
      "QR code is present and valid.")

\* InvoiceValidator.validate_qr_code
validate_qr_code(qr_code) ==
  Ran("validate_qr_code", <<qr_code>>, validate_qr_code_log(qr_code), "")

\* the appends of InvoiceValidator.validate_digital_signature, lines 635-651
validate_digital_signature_log(digital_signature) ==
     FlagCheck("digital_signature", digital_signature,
      "Digital signature flag is missing.",
      "Digital signature flag is present but marked as invalid.",
      "Digital signature is present and valid.")

\* InvoiceValidator.validate_digital_signature
validate_digital_signature(digital_signature) ==
  Ran("validate_digital_signature", <<digital_signature>>, validate_digital_signature_log(digital_signature), "")

(***************************************************************************)
(* InvoiceValidator.validate_resource_and_bill_details                     *)
(***************************************************************************)
RB == "resource_and_bill"

cgst_percent == 9
sgst_percent == 9
igst_percent == 18

\* percent / 100.0
Percent(percent) == DFromRatio(BFromInt(percent), 100)

\* The product (percent/100.0)*taxable_value, not rounded.
TaxAmtExact(percent, taxable_value) == DMul(Percent(percent), taxable_value)

\* round(((percent/100.0)*taxable_value), 2)
TaxAmt(percent, taxable_value) == DRound2(DMul(Percent(percent), taxable_value))

\* The locals as the method starts: the five amounts are 0.00, the two
\* invoice-level locals are not bound yet.  log holds the appends made so
\* far, exc the exception that ended the method ("" while it runs).
Locals0 ==
  [taxable_value |-> DZero, cgst |-> DZero, sgst |-> DZero, igst |-> DZero,
   total_inr |-> DZero, bound |-> {}, total_invoice_value_inr |-> DZero,
   total_invoice_value_words |-> "", log |-> <<>>, exc |-> ""]

\* the appends of one line item carry the position of the item in the list
At(log, i) == [j \in DOMAIN log |-> [log[j] EXCEPT !.item = i]]

\* the six presence ladders of one line item
ItemPresence(item) ==
     KeyLadder(RB, item, "sl_no",
      "Serial number key is missing.",
      "Serial number value is missing or empty.",
      Pass(RB, "sl_no", "Serial number is present."))
  \o KeyLadder(RB, item, "resource_name",
      "Resource name key is missing.",
      "Resource name value is missing or empty.",
      Pass(RB, "resource_name", "Resource name is present."))
  \o KeyLadder(RB, item, "hsn_sac",
      "HSN/SAC key is missing.",
      "HSN/SAC value is missing or empty.",
      Pass(RB, "hsn_sac", "HSN/SAC is present."))
  \o KeyLadder(RB, item, "po_no",
      "PO number key is missing.",
      "PO number value is missing or empty.",
      Pass(RB, "po_no", "PO number is present."))
  \o KeyLadder(RB, item, "bill_rate",
      "Bill rate key is missing.",
      "Bill rate value is missing or empty.",
      Pass(RB, "bill_rate", "Bill rate is present."))
  \o KeyLadder(RB, item, "ericsson_invoice_code",
      "Ericsson invoice code key is missing.",
      "Ericsson invoice code value is missing or empty.",
      Pass(RB, "ericsson_invoice_code", "Ericsson invoice code is present."))

\* One amount ladder of item i: a missing key leaves the local as it was;
\* '' makes it 0.00; anything else goes through float(), whose ValueError
\* ends the method before the pass is appended.
AmountLadder(L, item, i, key, missing, ok) ==
  IF L.exc # "" THEN L
  ELSE IF key \notin DOMAIN item
    THEN [L EXCEPT !.log = @ \o At(Err(RB, key, missing), i)]
  ELSE IF key \in DOMAIN item THEN
    IF item[key] = ""
      THEN [L EXCEPT ![key] = DZero, !.log = @ \o At(Pass(RB, key, ok), i)]
    ELSE LET Bound(f) ==
               IF ~f.ok THEN [L EXCEPT !.exc = "ValueError"]
               ELSE [L EXCEPT ![key] = f.val, !.log = @ \o At(Pass(RB, key, ok), i)]
         IN  Bound(FloatOfStr(item[key]))
  ELSE L

\* the body of `for item in resource_and_bill', for the item at position i
ItemBody(L, item, i) ==
  AmountLadder(
    AmountLadder(
      AmountLadder(
        AmountLadder(
          AmountLadder([L EXCEPT !.log = @ \o At(ItemPresence(item), i)],
                       item, i, "taxable_value",
                       "Taxable value key is missing.", "Taxable value is present."),
          item, i, "cgst", "CGST key is missing.", "CGST is present."),
        item, i, "sgst", "SGST key is missing.", "SGST is present."),
      item, i, "igst", "IGST key is missing.", "IGST is present."),
    item, i, "total_inr",
    "Line item total INR key is missing.", "Total INR is present.")

\* for item in resource_and_bill, from position i on
RECURSIVE ForItems(_, _, _)
ForItems(L, resource_and_bill, i) ==
  IF i > Len(resource_and_bill) \/ L.exc # "" THEN L
  ELSE ForItems(ItemBody(L, resource_and_bill[i], i), resource_and_bill, i + 1)

\* the two ladders over total_invoice_value: each binds its local only
\* when the key is there
InvoiceTotalLadder(L, total_invoice_value) ==
  IF L.exc # "" THEN L
  ELSE IF "total_inr" \notin DOMAIN total_invoice_value
    THEN [L EXCEPT !.log = @ \o Err(RB, "total_invoice_value.total_inr",
                                    "Invoice-level total INR key is missing.")]
  ELSE IF "total_inr" \in DOMAIN total_invoice_value THEN
    LET Bound(f) ==
          IF ~f.ok THEN [L EXCEPT !.exc = "ValueError"]
          ELSE [L EXCEPT !.total_invoice_value_inr = f.val,
                         !.bound = @ \cup {"total_invoice_value_inr"},
                         !.log = @ \o Pass(RB, "total_invoice_value.total_inr",
                                           "Total invoice value in INR is present.")]
    IN  IF total_invoice_value["total_inr"] = ""
          THEN Bound([ok |-> TRUE, val |-> DZero])
        ELSE Bound(FloatOfStr(total_invoice_value["total_inr"]))
  ELSE L

InWordsLadder(L, total_invoice_value) ==
  IF L.exc # "" THEN L
  ELSE IF "in_words" \notin DOMAIN total_invoice_value
    THEN [L EXCEPT !.log = @ \o Err(RB, "total_invoice_value.in_words",
                                    "Invoice total amount in words key is missing.")]
  ELSE IF "in_words" \in DOMAIN total_invoice_value THEN
    [L EXCEPT !.total_invoice_value_words =
                 IF total_invoice_value["in_words"] = "" THEN ""
                 ELSE total_invoice_value["in_words"],
              !.bound = @ \cup {"total_invoice_value_words"},
              !.log = @ \o Pass(RB, "total_invoice_value.in_words",
                                "Total invoice value in words is present.")]
  ELSE L

\* A tax ladder that looks at IGST alone whenever IGST is charged.
TaxLadderIgstFirst(cgst, sgst, igst, cgst_amt, sgst_amt, igst_amt) ==
  IF igst # DZero THEN
    IF igst = igst_amt THEN
      Pass(RB, "tax", "IGST is {igst} and correctly calculated at 18%. CGST and SGST are NIL.")
    ELSE
      Err(RB, "tax", "IGST is {igst} and incorrectly calculated. CGST and SGST are NIL.")
  ELSE <<>>

\* The tax ladder, lines 480-505, over the locals left by the loop.  The
\* f-string messages are kept as their templates.
TaxLadderOver(cgst, sgst, igst, cgst_amt, sgst_amt, igst_amt) ==
  IF igst # DZero THEN
    IF cgst = DZero /\ sgst = DZero THEN
      IF igst = igst_amt THEN
        Pass(RB, "tax", "IGST is {igst} and correctly calculated at 18%. CGST and SGST are NIL.")
      ELSE IF igst # igst_amt THEN
        Err(RB, "tax", "IGST is {igst} and incorrectly calculated. CGST and SGST are NIL.")
      ELSE <<>>
    ELSE IF cgst # DZero /\ sgst = DZero THEN
      Err(RB, "tax", "IGST and CGST are both being charged.")
    ELSE IF cgst = DZero /\ sgst # DZero THEN
      Err(RB, "tax", "IGST and SGST are both being charged.")
    ELSE IF cgst # DZero /\ sgst # DZero THEN
      Err(RB, "tax", "IGST, CGST and SGST are all being charged.")
    ELSE <<>>
  ELSE IF igst = DZero THEN
    IF cgst # DZero /\ sgst # DZero THEN
      IF cgst = cgst_amt /\ sgst = sgst_amt THEN
        Pass(RB, "tax", "CGST is {cgst }and SGST is {sgst} and are correctly calculated at 9% each. IGST is NIL.")
      ELSE IF cgst # cgst_amt /\ sgst = sgst_amt THEN
        Err(RB, "tax", "CGST is {cgst} and incorrectly calculated. CGST should be {cgst_amt}.")
      ELSE IF cgst = cgst_amt /\ sgst # sgst_amt THEN
        Err(RB, "tax", "SGST is {sgst} and incorrectly calculated. SGST should be {sgst_amt}.")
      ELSE <<>>
    ELSE IF cgst = DZero /\ sgst # DZero THEN
      Err(RB, "tax", "CGST is NIL. Should be calculated at 9% since IGST is NIL.")
    ELSE IF cgst # DZero /\ sgst = DZero THEN
      Err(RB, "tax", "SGST is NIL. Should be calculated at 9% since IGST is NIL.")
    ELSE IF cgst = DZero /\ sgst = DZero THEN
      Err(RB, "tax", "IGST, CGST and SGST are all NIL.")
    ELSE <<>>
  ELSE <<>>

\* lines 476-478 compute the three expected amounts, then the ladder runs
TaxLadder(taxable_value, cgst, sgst, igst) ==
  TaxLadderOver(cgst, sgst, igst,
                TaxAmt(cgst_percent, taxable_value),
                TaxAmt(sgst_percent, taxable_value),
                TaxAmt(igst_percent, taxable_value))

\* lines 507-510: total_inr against taxable_value + cgst + sgst + igst
LineTotalCheck(taxable_value, cgst, sgst, igst, total_inr) ==
  LET Against(sum) ==
        IF total_inr # sum THEN
          Err(RB, "line_total", "Computed line-item total does not match the sum of taxable value and taxes.")
        ELSE IF total_inr = sum THEN
          Pass(RB, "line_total", "Computed line-item total matches the sum of taxable value and taxes.")
        ELSE <<>>
  IN  Against(DAdd(DAdd(DAdd(taxable_value, cgst), sgst), igst))

\* lines 512-515: reading total_invoice_value_inr while it is not bound
\* raises UnboundLocalError
InvoiceTotalCheck(L) ==
  IF L.exc # "" THEN L
  ELSE IF "total_invoice_value_inr" \notin L.bound
    THEN [L EXCEPT !.exc = "UnboundLocalError"]
  ELSE IF L.total_inr # L.total_invoice_value_inr THEN
    [L EXCEPT !.log = @ \o Err(RB, "invoice_total",
        "Line-item total INR does not match invoice-level total INR.")]
  ELSE IF L.total_inr = L.total_invoice_value_inr THEN
    [L EXCEPT !.log = @ \o Pass(RB, "invoice_total",
        "Line-item total INR matches invoice-level total INR.")]
  ELSE L

\* lines 517-520: the same for total_invoice_value_words
InWordsCheck(L) ==
  IF L.exc # "" THEN L
  ELSE IF "total_invoice_value_words" \notin L.bound
    THEN [L EXCEPT !.exc = "UnboundLocalError"]
  ELSE LET Against(words) ==
             IF L.total_invoice_value_words # words THEN
               [L EXCEPT !.log = @ \o Err(RB, "in_words",
                   "Invoice total amount in words does not match the numeric total INR.")]
             ELSE IF L.total_invoice_value_words = words THEN
               [L EXCEPT !.log = @ \o Pass(RB, "in_words",
                   "Invoice total amount in words matches the numeric total INR.")]
             ELSE L
       IN  Against(number_to_words_inr(L.total_inr))

\* lines 476-510, which raise nothing
TaxAndTotalChecks(L) ==
  IF L.exc # "" THEN L
  ELSE [L EXCEPT !.log = @
          \o TaxLadder(L.taxable_value, L.cgst, L.sgst, L.igst)
          \o LineTotalCheck(L.taxable_value, L.cgst, L.sgst, L.igst, L.total_inr)]

\* the whole method: the locals as it ends
validate_resource_and_bill_details_run(resource_and_bill, total_invoice_value) ==
  IF Len(resource_and_bill) = 0 THEN
    [Locals0 EXCEPT !.log =
       Err(RB, "list", "Resource and bill details list has NO line items.")]
  ELSE
    InWordsCheck(
      InvoiceTotalCheck(
        TaxAndTotalChecks(
          InWordsLadder(
            InvoiceTotalLadder(
              ForItems([Locals0 EXCEPT !.log =
                          Pass(RB, "list", "Resource and bill details list has line items.")],
                       resource_and_bill, 1),
              total_invoice_value),
            total_invoice_value))))

\* InvoiceValidator.validate_resource_and_bill_details
validate_resource_and_bill_details(resource_and_bill, total_invoice_value) ==
  LET Ended(L) == Ran("validate_resource_and_bill_details",
                      <<resource_and_bill, total_invoice_value>>, L.log, L.exc)
  IN  Ended(validate_resource_and_bill_details_run(resource_and_bill,
                                                   total_invoice_value))

(***************************************************************************)
(* pymupdf_client/pdf_client.py: PyMuPDFClient                             *)
(***************************************************************************)
\* re.IGNORECASE | re.DOTALL, re.IGNORECASE, re.DOTALL, re.MULTILINE
IC_DOTALL == ReFlags(TRUE, TRUE, FALSE)
IC == ReFlags(TRUE, FALSE, FALSE)
DOTALL == ReFlags(FALSE, TRUE, FALSE)
MULTILINE == ReFlags(FALSE, FALSE, TRUE)

\* _find with match.group(1) or None
_findOrNone(self_text, re) ==
  LET Found(match) == IF match.ok THEN Strip(Group(match, self_text, 1)) ELSE None
  IN  Found(ReSearch(re, self_text, IC_DOTALL))

\* PyMuPDFClient._find: the first group of the first match, stripped
_find(self_text, re) ==
  LET Found(match) == IF match.ok THEN Strip(Group(match, self_text, 1)) ELSE ""
  IN  Found(ReSearch(re, self_text, IC_DOTALL))

\* the patterns of _extract_resource_and_bill_details
table_block_re == ReCompile("Total\\s+INR\\s*\\n(.*?)Total\\s+Invoice\\s*Value")
float_re == ReCompile("^\\d[\\d,]*\\.\\d{2}$")
int6_re == ReCompile("^\\d{6}$")
int10_re == ReCompile("^\\d{10}$")
invcode_re == ReCompile("^[A-Z]{3,}[A-Z0-9]+$")
record_split_re == ReCompile("(?=^\\d{1,3}\\n)")
sl_no_re == ReCompile("\\d{1,3}")
resource_name_re == ReCompile("[A-Z][A-Z\\s]+")

\* pattern.fullmatch(s) as a truth value
FullMatch(re, s) == ReFullMatch(re, s, NoFlags).ok

\* [l.strip() for l in record.splitlines() if l.strip()]
StrippedLines(record) ==
  LET NonBlank(l) == Strip(l) # ""
      Stripped(kept) == [i \in 1..Len(kept) |-> Strip(kept[i])]
  IN  Stripped(SelectSeq(SplitLines(record), NonBlank))

\* the fields of a record as the scan of its lines starts
Scan0 ==
  [po_no |-> "", bill_rate |-> "", inv_code |-> "", taxable |-> "",
   trailing_floats |-> <<>>]

\* the chain without its first branch (the combined line of Layout A)
ScanChainBare(S, line, parts) ==
  IF FullMatch(int10_re, line) /\ S.po_no = ""
    THEN [S EXCEPT !.po_no = line]
  ELSE IF FullMatch(float_re, line) /\ S.po_no # "" /\ S.bill_rate = ""
          /\ S.inv_code = ""
    THEN [S EXCEPT !.bill_rate = line]
  ELSE IF Len(parts) = 2 /\ FullMatch(invcode_re, parts[1])
          /\ FullMatch(float_re, parts[2]) /\ S.inv_code = ""
    THEN [S EXCEPT !.inv_code = parts[1], !.taxable = parts[2]]
  ELSE IF FullMatch(invcode_re, line) /\ S.inv_code = ""
    THEN [S EXCEPT !.inv_code = line]
  ELSE IF FullMatch(float_re, line) /\ S.inv_code # ""
    THEN IF S.taxable = "" THEN [S EXCEPT !.taxable = line]
         ELSE [S EXCEPT !.trailing_floats = Append(@, line)]
  ELSE S

\* the chain with a combined line of Layout A taken whenever it is met
ScanChainLastWins(S, line, parts) ==
  IF Len(parts) = 2 /\ FullMatch(int10_re, parts[1])
     /\ FullMatch(float_re, parts[2])
    THEN [S EXCEPT !.po_no = parts[1], !.bill_rate = parts[2]]
  ELSE ScanChainBare(S, line, parts)

\* the chain with a bare decimal taken as the rate whenever the rate is empty
ScanChainRateAnywhere(S, line, parts) ==
  IF Len(parts) = 2 /\ FullMatch(int10_re, parts[1])
     /\ FullMatch(float_re, parts[2]) /\ S.po_no = ""
    THEN [S EXCEPT !.po_no = parts[1], !.bill_rate = parts[2]]
  ELSE IF FullMatch(float_re, line) /\ S.bill_rate = ""
    THEN [S EXCEPT !.bill_rate = line]
  ELSE ScanChainBare(S, line, parts)

\* one turn of `while i < len(lines)': the if/elif chain on one line
ScanChain(S, line, parts) ==
  IF Len(parts) = 2 /\ FullMatch(int10_re, parts[1])
     /\ FullMatch(float_re, parts[2]) /\ S.po_no = ""
    THEN [S EXCEPT !.po_no = parts[1], !.bill_rate = parts[2]]
  ELSE IF FullMatch(int10_re, line) /\ S.po_no = ""
    THEN [S EXCEPT !.po_no = line]
  ELSE IF FullMatch(float_re, line) /\ S.po_no # "" /\ S.bill_rate = ""
          /\ S.inv_code = ""
    THEN [S EXCEPT !.bill_rate = line]
  ELSE IF Len(parts) = 2 /\ FullMatch(invcode_re, parts[1])
          /\ FullMatch(float_re, parts[2]) /\ S.inv_code = ""
    THEN [S EXCEPT !.inv_code = parts[1], !.taxable = parts[2]]
  ELSE IF FullMatch(invcode_re, line) /\ S.inv_code = ""
    THEN [S EXCEPT !.inv_code = line]
  ELSE IF FullMatch(float_re, line) /\ S.inv_code # ""
    THEN IF S.taxable = "" THEN [S EXCEPT !.taxable = line]
         ELSE [S EXCEPT !.trailing_floats = Append(@, line)]
  ELSE S

\* the chain on the whole line as its only part (no line.split())
ScanLineWhole(S, line) == ScanChain(S, line, <<line>>)

\* parts = line.split(), then the chain
ScanLine(S, line) == ScanChain(S, line, Split(line))

\* the while loop, from line i (counted from 1) on
RECURSIVE ScanLines(_, _, _)
ScanLines(S, lines, i) ==
  IF i > Len(lines) THEN S ELSE ScanLines(ScanLine(S, lines[i]), lines, i + 1)

\* the body of `for record in record_splits': the rows it appends
RecordRow(lines, S, tf) ==
  [sl_no |-> lines[1],
   resource_name |->
     IF FullMatch(resource_name_re, lines[2]) THEN lines[2] ELSE "",
   hsn_sac |->
     IF Len(lines) > 2 /\ FullMatch(int6_re, lines[3]) THEN lines[3]
     ELSE "",
   po_no |-> S.po_no,
   bill_rate |-> S.bill_rate,
   ericsson_invoice_code |-> S.inv_code,
   taxable_value |-> S.taxable,
   cgst |-> IF Len(tf) > 0 THEN tf[1] ELSE "",
   sgst |-> IF Len(tf) > 1 THEN tf[2] ELSE "",
   igst |-> IF Len(tf) > 2 THEN tf[3] ELSE "",
   total_inr |-> IF Len(tf) > 3 THEN tf[4] ELSE ""]

\* the record with the last four of the trailing decimals
ScannedRowLastFour(lines, S) ==
  RecordRow(lines, S,
            SubSeq(S.trailing_floats,
                   IF Len(S.trailing_floats) > 4
                     THEN Len(S.trailing_floats) - 3 ELSE 1,
                   Len(S.trailing_floats)))

\* the record after its lines were scanned
ScannedRow(lines, S) == RecordRow(lines, S, S.trailing_floats)

\* the guards, then the scan from the third line on
RecordLinesFromThird(record, lines) ==
  IF record = "" THEN <<>>
  ELSE IF Len(lines) < 2 THEN <<>>
  ELSE IF ~FullMatch(sl_no_re, lines[1]) THEN <<>>
  ELSE <<ScannedRow(lines, ScanLines(Scan0, lines, 3))>>

\* the three `continue' guards, then the scan from the fourth line on
RecordLines(record, lines) ==
  IF record = "" THEN <<>>
  ELSE IF Len(lines) < 2 THEN <<>>
  ELSE IF ~FullMatch(sl_no_re, lines[1]) THEN <<>>
  ELSE <<ScannedRow(lines, ScanLines(Scan0, lines, 4))>>

StrippedRecord(record) == RecordLines(record, StrippedLines(record))

RecordRows(record0) == StrippedRecord(Strip(record0))

RECURSIVE RowsFrom(_, _)
RowsFrom(record_splits, j) ==
  IF j > Len(record_splits) THEN <<>>
  ELSE RecordRows(record_splits[j]) \o RowsFrom(record_splits, j + 1)

\* PyMuPDFClient._extract_resource_and_bill_details
TableRecords(self_text, table_block_match) ==
  IF ~table_block_match.ok THEN <<>>
  ELSE RowsFrom(ReSplit(record_split_re,
                        Strip(Group(table_block_match, self_text, 1)),
                        MULTILINE), 1)

_extract_resource_and_bill_details(self_text) ==
  TableRecords(self_text, ReSearch(table_block_re, self_text, IC_DOTALL))

\* PyMuPDFClient._extract_total_invoice_value
total_invoice_value_re ==
  ReCompile("Total Invoice\\s*Value\\s+([\\d,]+\\.\\d{2})\\s+([\\d,]+\\.\\d{2})\\s+([\\d,]+\\.\\d{2})\\s+([\\d,]+\\.\\d{2})\\s+([\\d,]+\\.\\d{2})")
in_words_re ==
  ReCompile("Total Invoice\\s*Value\\s*\\(\\s*In\\s*Words\\s*\\)[:\\s]*([^\\n]+)")

_extract_total_invoice_value(self_text) ==
  LET Totals(m, in_words) ==
        IF m.ok
          THEN [taxable_value |-> Group(m, self_text, 1),
                cgst |-> Group(m, self_text, 2),
                sgst |-> Group(m, self_text, 3),
                igst |-> Group(m, self_text, 4),
                total_inr |-> Group(m, self_text, 5),
                in_words |-> in_words]
          ELSE [taxable_value |-> "", cgst |-> "", sgst |-> "", igst |-> "",
                total_inr |-> "", in_words |-> in_words]
  IN  Totals(ReSearch(total_invoice_value_re, self_text, IC),
             _find(self_text, in_words_re))

\* the patterns of the section extractors, each as the source writes it
lh_company_name_re == ReCompile("Authorised Signatory\\n(Genius HRTech Limited)")
lh_former_company_name_re == ReCompile("(\\(Formerly known as[^\\)]+\\))")
lh_address_re == ReCompile("(Synthesis Business Park\\s+Tower[^\\n]+\\n[^\\n]+?\\.)\\s*CIN No")
newline_run_re == ReCompile("\\s*\\n\\s*")
lh_cin_re == ReCompile("CIN No[:\\s]*([A-Z0-9]+)")
lh_gstin_re == ReCompile("GST NO[:\\s]*([A-Z0-9]+)")
lh_phone_re == ReCompile("Ph[:\\s]*([\\d\\-/]+)")
lh_email_re == ReCompile("Email[:\\s]*([\\w\\.\\-]+@[\\w\\.\\-]+)")
lh_website_re == ReCompile("Web[:\\s]*(www\\.[\\w\\.\\-/]+)")
ti_pan_re == ReCompile("PAN NO\\s*[:\\s]*([A-Z]{5}\\d{4}[A-Z])")
ti_tan_re == ReCompile("TAN NO\\s*[:\\s]*([A-Z]{4}\\d{5}[A-Z])")
bt_block_re == ReCompile("Bill To:-\\s*(.*?)(?=Sl\\.)")
bt_company_re == ReCompile("^([^\\n]+)")
bt_address_re == ReCompile("^[^\\n]+\\n(.*?)(?=GSTIN)")
bt_gstin_re == ReCompile("GSTIN\\s*[:\\s]*([A-Z0-9]+)")
bt_pan_re == ReCompile("Pan No\\s*[:\\s]*([A-Z]{5}\\d{4}[A-Z])")
bt_tan_re == ReCompile("Tan No\\s*[:\\s]*([A-Z]{4}\\d{5}[A-Z])")
bt_place_of_supply_re == ReCompile("Place of Supply[:\\s]*([A-Z\\-0-9]+)")
bt_irn_re == ReCompile("IRN No[.\\s]*([a-f0-9]{64})")
id_date_re == ReCompile("Date[:\\s]*([\\d]+\\s+\\w+\\s*\\d{4})")
id_invoice_no_re == ReCompile("Invoice[:\\s]*([A-Z]+/[A-Z0-9]+/\\d+)")
id_service_month_re == ReCompile("Service Month\\s*[:\\s]*([^\\n]+)")
id_lower_tds_cert_no_re == ReCompile("LOWER TDS CERT\\.?\\s*No\\.?\\s*[:\\s]*([A-Z0-9]+)")
note_block_re == ReCompile("NOTE:\\s*(.*?)(?=Bank details)")
note_1_re == ReCompile("1\\.\\s*(.*?)(?=2\\.)")
note_2_re == ReCompile("2\\.\\s*(.*?)(?=For any kind|$)")
whitespace_run_re == ReCompile("\\s+")
note_post_script_re == ReCompile("(For any kind of GST[^\\n]+)")
bd_beneficiary_name_re == ReCompile("Beneficiary Name\\s*[:\\s]*([^\\n]+(?:Limited)[^\\n]*)")
bd_bank_name_re == ReCompile("Bank\\s*Name\\s*[:\\s]*([^\\n]+)")
bd_address_re == ReCompile("Address\\s*[:\\s]*([\\d/A-Z\\s]+ROAD)")
bd_reverse_charge_re == ReCompile("Reverse\\s*Charge\\s*[:\\s]*(\\w+)")
bd_account_no_re == ReCompile("Account\\s*Number\\s*[:\\s]*(\\d+)")
bd_ifsc_code_re == ReCompile("IFSC\\s*Code\\s*[:\\s]*([A-Z0-9]+)")
bd_micr_code_re == ReCompile("MICR\\s*Code\\s*[:\\s]*(\\d+)")
bd_country_re == ReCompile("Country\\s*[:\\s]*(\\w+)")
bd_authorised_signatory_re == ReCompile("Authorised Signatory\\s*:\\s*([^\\n]+)")
arn_for_lut_re == ReCompile("ARN[^\\n]*[:\\s]*([^\\n]+)")
supply_re == ReCompile("(?<!Place of )(?<!Place Of )Supply\\s*:\\s*([^\\n]+)")
igst_foregone_re == ReCompile("IGST\\s*Foregone\\s*[:\\s]*([^\\n]+)")

\* PyMuPDFClient._extract_letter_head
_extract_letter_head(self_text) ==
  [company_name |-> _find(self_text, lh_company_name_re),
   former_company_name |-> _find(self_text, lh_former_company_name_re),
   address |-> Strip(ReSub(newline_run_re, " ", _find(self_text, lh_address_re),
                           NoFlags)),
   cin |-> _find(self_text, lh_cin_re),
   gstin |-> _find(self_text, lh_gstin_re),
   phone |-> _find(self_text, lh_phone_re),
   email |-> _find(self_text, lh_email_re),
   website |-> _find(self_text, lh_website_re)]

\* PyMuPDFClient._extract_tax_invoice
_extract_tax_invoice(self_text) ==
  [pan_no |-> _find(self_text, ti_pan_re), tan_no |-> _find(self_text, ti_tan_re)]

\* PyMuPDFClient._extract_bill_to_details; find_in_block is _find over the
\* block between "Bill To:-" and "Sl."
BillToAddress(block, address_match) ==
  IF address_match.ok
    THEN Strip(ReSub(newline_run_re, " ", Group(address_match, block, 1), NoFlags))
    ELSE ""

BillToFields(block) ==
  [company_name |-> _find(block, bt_company_re),
   address |-> BillToAddress(block, ReSearch(bt_address_re, block, IC_DOTALL)),
   gstin |-> _find(block, bt_gstin_re),
   pan_no |-> _find(block, bt_pan_re),
   tan_no |-> _find(block, bt_tan_re),
   place_of_supply |-> _find(block, bt_place_of_supply_re),
   irn_no |-> _find(block, bt_irn_re)]

BillToBlock(self_text, block_match) ==
  IF block_match.ok THEN Group(block_match, self_text, 1) ELSE ""

_extract_bill_to_details(self_text) ==
  BillToFields(BillToBlock(self_text, ReSearch(bt_block_re, self_text, IC_DOTALL)))

\* PyMuPDFClient._extract_invoice_details
_extract_invoice_details(self_text) ==
  [date |-> _find(self_text, id_date_re),
   invoice_no |-> _find(self_text, id_invoice_no_re),
   service_month |-> _find(self_text, id_service_month_re),
   lower_tds_cert_no |-> _find(self_text, id_lower_tds_cert_no_re)]

\* PyMuPDFClient._extract_note
NotePoint(note_block, m) ==
  IF note_block # "" /\ m.ok
    THEN Strip(ReSub(whitespace_run_re, " ", Group(m, note_block, 1), NoFlags))
    ELSE ""

NotePostScript(note_block, m) ==
  IF note_block # "" /\ m.ok THEN Strip(Group(m, note_block, 1)) ELSE ""

NoteFields(note_block) ==
  ("1" :> NotePoint(note_block, ReSearch(note_1_re, note_block, DOTALL)))
  @@ ("2" :> NotePoint(note_block, ReSearch(note_2_re, note_block, DOTALL)))
  @@ ("post_script" :>
        NotePostScript(note_block, ReSearch(note_post_script_re, note_block, NoFlags)))

_extract_note(self_text) == NoteFields(_find(self_text, note_block_re))

\* PyMuPDFClient._extract_beneficiary_details
_extract_beneficiary_details(self_text) ==
  [beneficiary_name |-> _find(self_text, bd_beneficiary_name_re),
   bank_name |-> _find(self_text, bd_bank_name_re),
   address |-> _find(self_text, bd_address_re),
   reverse_charge |-> _find(self_text, bd_reverse_charge_re),
   account_no |-> _find(self_text, bd_account_no_re),
   ifsc_code |-> _find(self_text, bd_ifsc_code_re),
   micr_code |-> _find(self_text, bd_micr_code_re),
   country |-> _find(self_text, bd_country_re),
   authorised_signatory |-> _find(self_text, bd_authorised_signatory_re)]

\* PyMuPDFClient._extract_qr_code: image_count is the number of images
\* embedded in the pages of the PDF
_extract_qr_code(image_count) == IF image_count >= 2 THEN "True" ELSE "False"

sig_keywords == <<"digitally signed", "signature not verified", "digital signature">>

\* PyMuPDFClient._extract_digital_signature
_extract_digital_signature(self_text) ==
  LET text_lower == Lower(self_text)
  IN  IF \E k \in DOMAIN sig_keywords : Contains(text_lower, sig_keywords[k])
        THEN "True" ELSE "False"

\* PyMuPDFClient.extract_invoice_data, as a value
extract_invoice_data_of(self_text, image_count) ==
  [letter_head |-> _extract_letter_head(self_text),
   tax_invoice |-> _extract_tax_invoice(self_text),
   bill_to_details |-> _extract_bill_to_details(self_text),
   invoice_details |-> _extract_invoice_details(self_text),
   resource_and_bill_details |-> _extract_resource_and_bill_details(self_text),
   total_invoice_value |-> _extract_total_invoice_value(self_text),
   arn_for_lut |-> _find(self_text, arn_for_lut_re),
   supply |-> _find(self_text, supply_re),
   igst_foregone |-> _find(self_text, igst_foregone_re),
   note |-> _extract_note(self_text),
   beneficiary_details |-> _extract_beneficiary_details(self_text),
   qr_code |-> _extract_qr_code(image_count),
   digital_signature |-> _extract_digital_signature(self_text)]

(***************************************************************************)
(* The arguments the section validators are called with.  A mapping is    *)
(* built from a record of values in which Absent marks a key the mapping   *)
(* does not have.                                                          *)
(***************************************************************************)
Absent == "<absent>"

Dict(vals) == [k \in {x \in DOMAIN vals : vals[x] # Absent} |-> vals[k]]

\* letter_head arguments of validate_letter_head
LetterHeads ==
  {Dict(r) : r \in
    [company_name : {Absent, "", " ", COMPANY_NAME, "Genius HRTech Ltd"},
     former_company_name :
       {Absent, "", FORMER_NAME, "(Formerly known as\nGenius Consultants Limited)",
        "Genius Consultants Limited"},
     gstin :
       {Absent, "", "29ABCDE1234F1Z5", "29ABCDE1234F1Y5", "29ABCDE1234F0Z5",
        "19aaacg1234a1z5"},
     email : {Absent, " ", EMAIL_ID, "enquiry@geniushrtech.in"},
     website : {Absent, "", WEBSITE, "geniushrtech.com"}]}

\* tax_invoice arguments of validate_tax_invoice
TaxInvoices ==
  {Dict(r) : r \in
    [pan_no : {Absent, "", " ", "AAACG1234A", "AAACG1234A\n", "AAACG1234"},
     tan_no : {Absent, "", " ", "CALG01234B", "calg01234b", "CALG01234BX"}]}

\* a well-formed IRN: 64 hexadecimal digits
GoodIRN == "a3f5c1d2a3f5c1d2a3f5c1d2a3f5c1d2a3f5c1d2a3f5c1d2a3f5c1d2a3f5c1d2"

\* bill_to arguments of validate_bill_to_details
BillTos ==
  {Dict(r) : r \in
    [company_name : {Absent, "", "Ericsson India Private Limited"},
     address : {Absent, " ", "DLF Cyber City Gurgaon"},
     gstin : {Absent, "06AAACE1234B1Z6", "06AAACE1234B1X6", "06AAACE1234B0Z6"},
     pan_no : {Absent, "", "AAACE1234B", "AAACE12345"},
     tan_no : {Absent, "DELE01234C", "DELE0123C"},
     place_of_supply : {Absent, "", "06-HARYANA"},
     irn_no : {Absent, GoodIRN, "a3f5c1d2"}]}

\* invoice arguments of validate_invoice_details
Invoices ==
  {Dict(r) : r \in
    [date : {Absent, "", "05 Nov 2025", "5 Nov 2025", "32 Nov 2025"},
     invoice_no : {Absent, "", "GWBIAR/FB0001/26"},
     service_month : {Absent, " ", "Oct 2025"},
     lower_tds_cert_no : {Absent, "", "ABC123"}]}

\* note arguments of validate_note
NoteKeys == {"1", "2", "post_script"}

NoteValues ==
  {Absent, "", " ",
   "Please check the calculation/attendance/amount of the bill",
   "Payment is due within 30 days."}

Notes == {Dict(f) : f \in [NoteKeys -> NoteValues]}

\* beneficiary arguments of validate_beneficiary_details
Beneficiaries ==
  {Dict(r) : r \in
    [beneficiary_name : {Absent, "", COMPANY_NAME},
     account_no : {Absent, " ", "00080310000123"},
     ifsc_code : {Absent, "", "HDFC0000008"},
     country : {Absent, "", "India"}]}

\* qr_code and digital_signature arguments
Flags == {"True", "False", "true", "", " ", "True "}

(***************************************************************************)
(* The arguments of validate_resource_and_bill_details.  Amounts are       *)
(* written as the invoice prints them: rupees, ".", two digits of paise.   *)
(***************************************************************************)
\* the decimal numeral of a natural
RECURSIVE IntStr(_)
IntStr(n) ==
  IF n < 10 THEN SubSeq("0123456789", n + 1, n + 1)
  ELSE IntStr(n \div 10) \o IntStr(n % 10)

\* the amount of p paise as the invoice prints it
Money(p) == IntStr(p \div 100) \o "." \o IntStr((p % 100) \div 10) \o IntStr(p % 10)

\* the number of paise a printed amount of digits "." two digits stands for
RECURSIVE CentsFrom(_, _, _)
CentsFrom(s, i, acc) ==
  IF i > Len(s) THEN acc
  ELSE IF Char(s, i) = "." THEN CentsFrom(s, i + 1, acc)
  ELSE CentsFrom(s, i + 1, 10 * acc + DigitVal(Char(s, i)))

Cents(s) == IF s = "" THEN 0 ELSE CentsFrom(s, 1, 0)

\* digits "." two digits: the amounts float() reads as they are printed
plain_amount_re == ReCompile("^\\d+\\.\\d{2}$")

PlainAmount(s) == ReFullMatch(plain_amount_re, s, NoFlags).ok

ItemKeys ==
  {"sl_no", "resource_name", "hsn_sac", "po_no", "bill_rate",
   "ericsson_invoice_code", "taxable_value", "cgst", "sgst", "igst", "total_inr"}

AmountKeys == {"taxable_value", "cgst", "sgst", "igst", "total_inr"}

\* one line item, as the table parser builds it
Item(taxable_value, cgst, sgst, igst, total_inr) ==
  [sl_no |-> "1", resource_name |-> "SHAILENDRA KUSHWAH", hsn_sac |-> "998513",
   po_no |-> "8000112642", bill_rate |-> "51980.00",
   ericsson_invoice_code |-> "ERCSIN01233612",
   taxable_value |-> taxable_value, cgst |-> cgst, sgst |-> sgst, igst |-> igst,
   total_inr |-> total_inr]

\* a mapping without the keys of the set drop
Without(d, drop) == [k \in DOMAIN d \ drop |-> d[k]]

\* taxable values, in paise
Taxables == {10000, 50, 25, 33, 173963, 5198000}

\* the printed tax amounts tried for a taxable value: none, the percentage
\* rounded half up, and one paisa less
TaxTokens(percent, taxable) ==
  {"0.00", Money((percent * taxable + 50) \div 100),
   Money((percent * taxable + 50) \div 100 - 1)}

WrongWords == "Rupees One and Paisa Only."

\* One item with the tax amounts c, s, i, and a total that is their sum
\* with the taxable value (total = "sum"), or the amount given; the invoice
\* total repeats it.
TaxCase(t, c, s, i, total) ==
  LET tot == IF total = "sum" THEN Money(t + Cents(c) + Cents(s) + Cents(i))
             ELSE total
  IN  << <<Item(Money(t), c, s, i, tot)>>,
         [total_inr |-> tot, in_words |-> WrongWords] >>

TaxCasesOf(t) ==
  {TaxCase(t, c, s, i, total) :
     c \in TaxTokens(cgst_percent, t),
     s \in TaxTokens(sgst_percent, t) \cup {""},
     i \in TaxTokens(igst_percent, t),
     total \in {"sum", "1.00", ""}}

TaxCases == UNION {TaxCasesOf(t) : t \in Taxables}

\* inter-state and intra-state items whose amounts agree, and items that
\* break one rule each
IgstItem == Item("100.00", "0.00", "0.00", "18.00", "118.00")
CgstSgstItem == Item("100.00", "9.00", "9.00", "0.00", "118.00")
BadTotalItem == Item("100.00", "0.00", "0.00", "18.00", "999.00")
BothWrongItem == Item("100.00", "5.00", "5.00", "0.00", "110.00")
SparseItem == Without(IgstItem, {"hsn_sac", "cgst", "total_inr"})

ItemPool == {IgstItem, CgstSgstItem, BadTotalItem, BothWrongItem, SparseItem}

\* the longest list of line items
MaxItems == 2

ItemLists == UNION {[1..n -> ItemPool] : n \in 0..MaxItems}

RightWords118 == "Rupees One Hundred Eighteen and Paisa Only."

RightWords236 == "Rupees Two Hundred Thirty Six and Paisa Only."

TotalPool ==
  {[total_inr |-> "118.00", in_words |-> RightWords118],
   [total_inr |-> "236.00", in_words |-> RightWords236],
   [total_inr |-> "118.00"],
   [in_words |-> RightWords118]}

ListCases == {<<l, t>> : l \in ItemLists, t \in TotalPool}

\* every total_invoice_value over two single items
TotalCases ==
  {<< <<it>>, Dict(r) >> :
     it \in {IgstItem, Item("1739.63", "156.57", "156.57", "0.00", "2052.77")},
     r \in [total_inr : {Absent, "", "118.00", "1.00", "2,052.77"},
            in_words : {Absent, "", RightWords118, WrongWords}]}

\* items without some of their keys, or with blank values
KeyCases ==
  {<< <<Without(IgstItem, drop)>>, [total_inr |-> "118.00", in_words |-> RightWords118] >> :
     drop \in (SUBSET AmountKeys) \cup {{k} : k \in ItemKeys} \cup {ItemKeys}}
  \cup
  {<< <<[CgstSgstItem EXCEPT ![k] = v]>>,
      [total_inr |-> "118.00", in_words |-> RightWords118] >> :
     k \in ItemKeys \ AmountKeys, v \in {"", " "}}

\* amounts printed in other ways
OddAmounts == {"1,739.63", "abc", " ", "118", " 118.00 "}

OddCases ==
  {<< <<[IgstItem EXCEPT ![k] = v]>>,
      [total_inr |-> "118.00", in_words |-> RightWords118] >> :
     k \in AmountKeys, v \in OddAmounts}

ResourceCases == TaxCases \cup ListCases \cup TotalCases \cup KeyCases \cup OddCases

(***************************************************************************)
(* One InvoiceValidator, one call at a time: a section validator runs on   *)
(* a validator as __init__ left it, and a new validator is made after it.  *)
(***************************************************************************)
Init ==
  /\ errors = [sec \in Sections |-> <<>>]
  /\ passes = [sec \in Sections |-> <<>>]
  /\ call = [op |-> "__init__", args |-> <<>>]
  /\ out = <<>>
  /\ raised = ""
  /\ result = None
  /\ text = ""
  /\ images = 0
  /\ runs = 0
  /\ requests = <<>>
  /\ held = <<>>
  /\ files = NoFiles

Fresh == call.op = "__init__"

Next ==
  \/ Fresh /\ \E letter_head \in LetterHeads : validate_letter_head(letter_head)
  \/ Fresh /\ \E tax_invoice \in TaxInvoices : validate_tax_invoice(tax_invoice)
  \/ Fresh /\ \E bill_to \in BillTos : validate_bill_to_details(bill_to)
  \/ Fresh /\ \E invoice \in Invoices : validate_invoice_details(invoice)
  \/ Fresh /\ \E c \in ResourceCases : validate_resource_and_bill_details(c[1], c[2])
  \/ Fresh /\ \E note \in Notes : validate_note(note)
  \/ Fresh /\ \E beneficiary \in Beneficiaries : validate_beneficiary_details(beneficiary)
  \/ Fresh /\ \E qr_code \in Flags : validate_qr_code(qr_code)
  \/ Fresh /\ \E digital_signature \in Flags : validate_digital_signature(digital_signature)
  \/ ~Fresh /\ InvoiceValidator__init__

Spec == Init /\ [][Next]_vars

(***************************************************************************)
(* Properties of one call of a section validator on a fresh validator      *)
(* (specification Spec).                                                   *)
(***************************************************************************)
\* the appends the last call made to the list `to' from the ladder of `key'
Made(to, key) == {j \in DOMAIN out : out[j].to = to /\ out[j].key = key}

\* the same for the line item at position i
MadeFor(to, key, i) == {j \in Made(to, key) : out[j].item = i}

\* the keys each one-argument validator expects in its mapping
ExpectedKeys ==
  [validate_letter_head |->
     {"company_name", "former_company_name", "gstin", "email", "website"},
   validate_tax_invoice |-> {"pan_no", "tan_no"},
   validate_bill_to_details |->
     {"company_name", "address", "gstin", "pan_no", "tan_no", "place_of_supply",
      "irn_no"},
   validate_invoice_details |->
     {"date", "invoice_no", "service_month", "lower_tds_cert_no"},
   validate_note |-> {"1", "2", "post_script"},
   validate_beneficiary_details |->
     {"beneficiary_name", "account_no", "ifsc_code", "country"}]

FlagValidators == {"validate_qr_code", "validate_digital_signature"}

\* the section a flag validator writes to, which is also the key of its ladder
FlagSection(op) == IF op = "validate_qr_code" THEN "qr_code" ELSE "digital_signature"

ResourceCall == call.op = "validate_resource_and_bill_details"

\* the call returned and left exactly one "... key is missing" error, and no
\* pass, from the ladder of key k (of line item i, or 0)
OneKeyMissing(k, i) ==
  /\ raised = ""
  /\ Cardinality(MadeFor("errors", k, i)) = 1
  /\ \A j \in MadeFor("errors", k, i) : Contains(out[j].msg, "key is missing")
  /\ MadeFor("passes", k, i) = {}

\* C1: a call in which an expected key is absent completes and appends
\* exactly one "... key is missing" error and no pass for that key; this
\* includes the keys of every line item and total_inr and in_words of
\* total_invoice_value.
C1_MissingKeyReported ==
  /\ \A op \in DOMAIN ExpectedKeys :
       call.op = op =>
         \A k \in ExpectedKeys[op] \ DOMAIN call.args[1] : OneKeyMissing(k, 0)
  /\ ResourceCall /\ call.args[1] # <<>> =>
       /\ \A i \in DOMAIN call.args[1] :
            \A k \in ItemKeys \ DOMAIN call.args[1][i] : OneKeyMissing(k, i)
       /\ \A k \in {"total_inr", "in_words"} \ DOMAIN call.args[2] :
            OneKeyMissing("total_invoice_value." \o k, 0)

\* C2: one call of a one-argument validator appends, for every key it
\* inspects (for a flag validator: for its flag), exactly one message, to
\* the errors or to the passes of its section.
C2_OneMessagePerKey ==
  /\ \A op \in DOMAIN ExpectedKeys :
       call.op = op =>
         /\ raised = ""
         /\ \A k \in ExpectedKeys[op] :
              Cardinality(Made("errors", k) \cup Made("passes", k)) = 1
         /\ Len(out) = Cardinality(ExpectedKeys[op])
  /\ \A op \in FlagValidators :
       call.op = op =>
         /\ raised = ""
         /\ Len(out) = 1
         /\ Cardinality(Made("errors", FlagSection(op))
                        \cup Made("passes", FlagSection(op))) = 1
         /\ out[1].section = FlagSection(op)

\* C2 witness: a letter head with a well-formed GSTIN and another e-mail
\* address was validated, one key passing and one failing
C2_Witness ==
  /\ call.op = "validate_letter_head"
  /\ Made("passes", "gstin") # {}
  /\ Made("errors", "email") # {}
  /\ Made("errors", "website") # {}

\* an amount as the run reads it: '' (0.00) or digits "." two digits
Readable(item) ==
  \A k \in AmountKeys : k \in DOMAIN item /\ (item[k] = "" \/ PlainAmount(item[k]))

\* The run reached the tax ladder with the amounts of its last line item,
\* all five of them readable.
TaxChecked ==
  /\ ResourceCall
  /\ call.args[1] # <<>>
  /\ raised # "ValueError"
  /\ Readable(call.args[1][Len(call.args[1])])

LastItem == call.args[1][Len(call.args[1])]

\* an amount of the last line item, in paise
LastPaise(k) == Cents(LastItem[k])

\* |100 * amount - percent * taxable| in hundredths of a paisa: the amount is
\* the percentage of the taxable value rounded to 2 decimals when this is
\* below 50, and is not when it is above 50
Off(k, percent) ==
  LET d == 100 * LastPaise(k) - percent * LastPaise("taxable_value")
  IN  IF d < 0 THEN 0 - d ELSE d

\* C3: with IGST zero, a tax pass is recorded only when CGST and SGST are
\* both non-zero and each is 9% of the taxable value, and every other
\* combination appends a tax error.
C3_IgstZeroCombinations ==
  TaxChecked /\ LastPaise("igst") = 0 =>
    /\ Made("passes", "tax") # {} =>
         /\ LastPaise("cgst") > 0 /\ LastPaise("sgst") > 0
         /\ Off("cgst", cgst_percent) <= 50 /\ Off("sgst", sgst_percent) <= 50
    /\ (LastPaise("cgst") = 0 \/ LastPaise("sgst") = 0
        \/ Off("cgst", cgst_percent) > 50 \/ Off("sgst", sgst_percent) > 50) =>
         Made("errors", "tax") # {}

\* the amounts of a line item add up
AddsUp(item) ==
  Cents(item["total_inr"])
    = Cents(item["taxable_value"]) + Cents(item["cgst"]) + Cents(item["sgst"])
      + Cents(item["igst"])

\* C4: when the run records the line-total pass and no line-total error,
\* every line item of the list satisfies total_inr = taxable_value + cgst +
\* sgst + igst.
C4_EveryItemChecked ==
  /\ ResourceCall
  /\ \A i \in DOMAIN call.args[1] : Readable(call.args[1][i])
  /\ Made("passes", "line_total") # {}
  /\ Made("errors", "line_total") = {}
  => \A i \in DOMAIN call.args[1] : AddsUp(call.args[1][i])

\* the mixed-regime message of each combination
MixedMessage ==
  IF LastPaise("cgst") > 0 /\ LastPaise("sgst") > 0
    THEN "IGST, CGST and SGST are all being charged."
  ELSE IF LastPaise("cgst") > 0 THEN "IGST and CGST are both being charged."
  ELSE "IGST and SGST are both being charged."

\* C5: with IGST non-zero and CGST or SGST non-zero, exactly one
\* mixed-regime error is appended, its text naming the combination, and no
\* tax pass.
C5_MixedRegime ==
  TaxChecked /\ LastPaise("igst") > 0
    /\ (LastPaise("cgst") > 0 \/ LastPaise("sgst") > 0) =>
    /\ Cardinality(Made("errors", "tax")) = 1
    /\ \A j \in Made("errors", "tax") :
         out[j].msg = MixedMessage /\ out[j].section = RB
    /\ Made("passes", "tax") = {}

\* C5 witness: all three taxes were charged on one item
C5_Witness ==
  /\ TaxChecked
  /\ LastPaise("igst") > 0 /\ LastPaise("cgst") > 0 /\ LastPaise("sgst") > 0
  /\ \E j \in Made("errors", "tax") :
       out[j].msg = "IGST, CGST and SGST are all being charged."

\* C6: with IGST non-zero and CGST and SGST zero, the tax check appends a
\* pass exactly when IGST is 18% of the taxable value rounded to 2
\* decimals, and otherwise exactly one "incorrectly calculated" IGST error.
C6_IgstOnly ==
  TaxChecked /\ LastPaise("igst") > 0 /\ LastPaise("cgst") = 0
    /\ LastPaise("sgst") = 0 =>
    /\ Made("passes", "tax") # {} => Off("igst", igst_percent) <= 50
    /\ Off("igst", igst_percent) < 50 => Made("passes", "tax") # {}
    /\ Cardinality(Made("passes", "tax") \cup Made("errors", "tax")) = 1
    /\ \A j \in Made("errors", "tax") :
         out[j].msg = "IGST is {igst} and incorrectly calculated. CGST and SGST are NIL."

\* C6 witness: an inter-state item with IGST of 313.13 on 1739.63 passed
C6_Witness ==
  /\ TaxChecked
  /\ LastItem["taxable_value"] = "1739.63" /\ LastItem["igst"] = "313.13"
  /\ LastPaise("cgst") = 0 /\ LastPaise("sgst") = 0
  /\ Made("passes", "tax") # {}

\* the key is there and its value is empty or whitespace only
Blank(d, k) == k \in DOMAIN d /\ Strip(d[k]) = ""

\* exactly one "... value is missing or empty" error, and no pass, came
\* from the ladder of key k (of line item i, or 0)
OneEmptyError(k, i) ==
  /\ Cardinality(MadeFor("errors", k, i)) = 1
  /\ \A j \in MadeFor("errors", k, i) :
       Contains(out[j].msg, "value is missing or empty")
  /\ MadeFor("passes", k, i) = {}

\* C12: in every section, a key that is present with an empty or
\* whitespace-only value yields exactly one "<field> value is missing or
\* empty" error and no pass for that key.
C12_BlankValueReported ==
  /\ \A op \in DOMAIN ExpectedKeys :
       call.op = op =>
         \A k \in ExpectedKeys[op] : Blank(call.args[1], k) => OneEmptyError(k, 0)
  /\ ResourceCall /\ call.args[1] # <<>> =>
       /\ \A i \in DOMAIN call.args[1] :
            \A k \in ItemKeys : Blank(call.args[1][i], k) => OneEmptyError(k, i)
       /\ \A k \in {"total_inr", "in_words"} :
            Blank(call.args[2], k) =>
              OneEmptyError("total_invoice_value." \o k, 0)

\* the characters lo..hi of s are all in S
AllIn(s, lo, hi, S) == \A i \in lo..hi : Char(s, i) \in S

Alphanumerics == Digits \cup UpperAZ

\* 2 digits, 5 letters, 4 digits, 1 letter, <a character of Entity>, "Z",
\* 1 alphanumeric
GstinShape(v, Entity) ==
  /\ Len(v) = 15
  /\ AllIn(v, 1, 2, Digits)
  /\ AllIn(v, 3, 7, UpperAZ)
  /\ AllIn(v, 8, 11, Digits)
  /\ Char(v, 12) \in UpperAZ
  /\ Char(v, 13) \in Entity
  /\ Char(v, 14) = "Z"
  /\ Char(v, 15) \in Alphanumerics

\* the GSTIN a call of validate_letter_head or validate_bill_to_details
\* was given, when it has one that is not blank
GstinChecked ==
  /\ call.op \in {"validate_letter_head", "validate_bill_to_details"}
  /\ "gstin" \in DOMAIN call.args[1]
  /\ ~Blank(call.args[1], "gstin")

GstinPassed == Made("passes", "gstin") # {} /\ Made("errors", "gstin") = {}

GstinFailed == Made("errors", "gstin") # {} /\ Made("passes", "gstin") = {}

\* C16 as stated: every value of the shape 2 digits, 5 letters, 4 digits,
\* 1 letter, 1 alphanumeric, Z, 1 alphanumeric passes the GSTIN check, and
\* every value with another character in the Z position fails.
C16_StatedShape ==
  GstinChecked =>
    /\ GstinShape(call.args[1]["gstin"], Alphanumerics) => GstinPassed
    /\ Len(call.args[1]["gstin"]) = 15 /\ Char(call.args[1]["gstin"], 14) # "Z"
         => GstinFailed

\* C16 amended: the 13th character is a digit 1-9 or a letter.  Every value
\* of the shape 2 digits, 5 letters, 4 digits, 1 letter, 1 of 1-9 or A-Z, Z,
\* 1 alphanumeric passes; a value of the stated shape whose 13th character
\* is 0 fails; every value with another character in the Z position fails.
C16_GstinShape ==
  GstinChecked =>
    /\ GstinShape(call.args[1]["gstin"], Alphanumerics \ {"0"}) => GstinPassed
    /\ GstinShape(call.args[1]["gstin"], {"0"}) => GstinFailed
    /\ Len(call.args[1]["gstin"]) = 15 /\ Char(call.args[1]["gstin"], 14) # "Z"
         => GstinFailed

\* C16 witness: a letter head whose GSTIN has 0 as 13th character failed
\* the format check
C16_Witness ==
  /\ call.op = "validate_letter_head"
  /\ "gstin" \in DOMAIN call.args[1]
  /\ call.args[1]["gstin"] = "29ABCDE1234F0Z5"
  /\ GstinFailed

HexDigits == Digits \cup CharRange("a", "f") \cup CharRange("A", "F")

\* PAN: 5 letters, 4 digits, 1 letter
IsPAN(v) ==
  Len(v) = 10 /\ AllIn(v, 1, 5, UpperAZ) /\ AllIn(v, 6, 9, Digits)
    /\ Char(v, 10) \in UpperAZ

\* TAN: 4 letters, 5 digits, 1 letter
IsTAN(v) ==
  Len(v) = 10 /\ AllIn(v, 1, 4, UpperAZ) /\ AllIn(v, 5, 9, Digits)
    /\ Char(v, 10) \in UpperAZ

\* IRN: 64 hexadecimal characters
IsIRN(v) == Len(v) = 64 /\ AllIn(v, 1, 64, HexDigits)

Months ==
  {"Jan", "Feb", "Mar", "Apr", "May", "Jun", "Jul", "Aug", "Sep", "Oct", "Nov", "Dec"}

DaysOfMonth == {IF d < 10 THEN "0" \o IntStr(d) ELSE IntStr(d) : d \in 1..31}

\* date: DD Mon YYYY, the parts one whitespace character apart
IsDate(v) ==
  /\ Len(v) = 11
  /\ SubSeq(v, 1, 2) \in DaysOfMonth
  /\ Char(v, 3) \in Whitespace
  /\ SubSeq(v, 4, 6) \in Months
  /\ Char(v, 7) \in Whitespace
  /\ AllIn(v, 8, 11, Digits)

\* the format checks: validator, key, and whether its value has the shape
FormatChecks ==
  { <<op, k>> : op \in {"validate_tax_invoice", "validate_bill_to_details"},
                k \in {"pan_no", "tan_no"} }
  \cup { <<"validate_bill_to_details", "irn_no">>,
         <<"validate_invoice_details", "date">> }

HasShape(k, v) ==
  CASE k = "pan_no" -> IsPAN(v)
    [] k = "tan_no" -> IsTAN(v)
    [] k = "irn_no" -> IsIRN(v)
    [] k = "date" -> IsDate(v)

\* C17: a PAN, TAN, IRN or date passes its format check if and only if the
\* whole value is exactly of its shape; any other value that is not blank,
\* one with a trailing newline included, is recorded as a format error.
C17_ExactShape ==
  \A c \in FormatChecks :
    call.op = c[1] /\ c[2] \in DOMAIN call.args[1] /\ ~Blank(call.args[1], c[2]) =>
      IF HasShape(c[2], call.args[1][c[2]])
        THEN Made("passes", c[2]) # {} /\ Made("errors", c[2]) = {}
        ELSE Made("errors", c[2]) # {} /\ Made("passes", c[2]) = {}

\* the lines of NOTE_TEXT: note point 1, note point 2 and the post script
NoteLines == SplitLines(NOTE_TEXT)

\* a line without its "1. " or "2. "
Unnumbered(line) == SubSeq(line, 4, Len(line))

\* the expected text of each field compared with a fixed constant (a note
\* point with or without its number)
ExpectedTexts ==
  [validate_letter_head |->
     [company_name |-> {COMPANY_NAME}, former_company_name |-> {FORMER_NAME},
      email |-> {EMAIL_ID}, website |-> {WEBSITE}],
   validate_note |->
     [n \in NoteKeys |->
        IF n = "1" THEN {NoteLines[1], Unnumbered(NoteLines[1])}
        ELSE IF n = "2" THEN {NoteLines[2], Unnumbered(NoteLines[2])}
        ELSE {NoteLines[3]}]]

\* C18: a field compared with a fixed expected constant is recorded as a
\* pass only when its value is exactly the expected text; any other
\* non-empty value is recorded as an error.
C18_ExactConstant ==
  \A op \in DOMAIN ExpectedTexts :
    call.op = op =>
      \A k \in DOMAIN ExpectedTexts[op] :
        k \in DOMAIN call.args[1] /\ ~Blank(call.args[1], k)
          /\ call.args[1][k] \notin ExpectedTexts[op][k] =>
            Made("passes", k) = {} /\ Made("errors", k) # {}

\* The run read every amount of a non-empty list and both entries of
\* total_invoice_value.
TotalsChecked ==
  /\ ResourceCall
  /\ call.args[1] # <<>>
  /\ \A i \in DOMAIN call.args[1] : Readable(call.args[1][i])
  /\ DOMAIN call.args[2] = {"total_inr", "in_words"}
  /\ PlainAmount(call.args[2]["total_inr"])

\* C19: the amount-in-words check appends a pass if and only if in_words
\* equals number_to_words_inr of the numeric total of the invoice, and
\* otherwise appends exactly one error.
C19_WordsOfInvoiceTotal ==
  TotalsChecked =>
    IF call.args[2]["in_words"]
         = number_to_words_inr(FloatOfStr(call.args[2]["total_inr"]).val)
      THEN Cardinality(Made("passes", "in_words")) = 1
           /\ Made("errors", "in_words") = {}
      ELSE Cardinality(Made("errors", "in_words")) = 1
           /\ Made("passes", "in_words") = {}

(***************************************************************************)
(* number_to_words_inr on its own: the function is called with amounts of  *)
(* two decimal places, again and again (specification SpecWords).  call    *)
(* holds the amount as it is printed, result the string returned.          *)
(***************************************************************************)
WordRupees == {0, 1234, 5000}

WordPaise == {p \in 0..99 : p % 3 = 0 \/ p \in {1, 29, 58}}

WordAmounts == {Money(100 * r + p) : r \in WordRupees, p \in WordPaise}

\* number_to_words_inr(float(printed))
number_to_words_inr_call(printed) ==
  /\ call' = [op |-> "number_to_words_inr", args |-> <<printed>>]
  /\ result' = number_to_words_inr(FloatOfStr(printed).val)
  /\ raised' = ""
  /\ out' = <<>>
  /\ UNCHANGED <<errors, passes, text, images, runs, requests, held, files>>

NextWords == \E printed \in WordAmounts : number_to_words_inr_call(printed)

SpecWords == Init /\ [][NextWords]_vars

WordsCall == call.op = "number_to_words_inr"

\* the rupees and the paise of the amount of the call, read off its digits
CallRupees == Cents(call.args[1]) \div 100

CallPaise == Cents(call.args[1]) % 100

\* the words of the rupees, as the function cleans them
RupeeWords(n) == CleanWords(WordsOf(n))

\* the string has the stated format
WordsFormat ==
  WordsCall =>
    /\ result = IF CallPaise = 0
                  THEN "Rupees " \o RupeeWords(CallRupees) \o " and Paisa Only."
                ELSE "Rupees " \o RupeeWords(CallRupees) \o " and "
                       \o WordsOf(CallPaise) \o " Paisa Only."
    /\ call.args[1] = "5000.00" => result = "Rupees Five Thousand and Paisa Only."

\* a call with the amount of the call before it returns the same string
SameWordsAgain ==
  WordsCall /\ call'.op = "number_to_words_inr" /\ call'.args = call.args
    => result' = result

\* C20: for every non-negative amount with two decimal places,
\* number_to_words_inr returns "Rupees {RupeeWords} and Paisa Only." when
\* the paise are zero and "Rupees {RupeeWords} and {PaiseWords} Paisa Only."
\* with the words of the paise (1..99) otherwise, and the same string on
\* every call with the same amount; 5000.00 gives "Rupees Five Thousand
\* and Paisa Only.".
C20_WordsOfAmount == []WordsFormat /\ [][SameWordsAgain]_vars

\* C20 witness: 1234.58 was put in words, paise included
C20_Witness ==
  /\ WordsCall
  /\ call.args[1] = "1234.58"
  /\ result = "Rupees One Thousand Two Hundred Thirty Four and Fifty Eight Paisa Only."

(***************************************************************************)
(* One invoice through the PyMuPDF pipeline (pymupdf_client/main.py,       *)
(* InvoiceProcessor.process on a new InvoiceProcessor): the client opens   *)
(* the PDF, extract_invoice_data reads the fields off its text, and        *)
(* validate_data runs the section validators on them.  A PDF is one page,  *)
(* given by the blocks printed on it and the number of its images.         *)
(***************************************************************************)
\* the letter head and the tax-invoice heading
HeadText ==
  "Authorised Signatory\nGenius HRTech Limited\n(Formerly known as Genius Consultants Limited)\nGST NO: 29ABCDE1234F1Z5\nEmail: enquiry@geniushrtech.com\nWeb: www.geniushrtech.com\nTAX INVOICE\nPAN NO: AAACG1234A\nTAN NO: CALG01234B\n"

\* the bill-to block
BillToText ==
  "Bill To:-\nEricsson India Pvt Ltd\nDLF Cyber City\nGurgaon\nGSTIN: 06AAACE1234B1Z6\nPan No: AAACE1234B\nTan No: DELE01234C\nPlace of Supply: 06-HARYANA\nIRN No. "
    \o GoodIRN \o "\n"

\* what extraction reads off the bill-to block
BillToRead ==
  [company_name |-> "Ericsson India Pvt Ltd", address |-> "DLF Cyber City Gurgaon",
   gstin |-> "06AAACE1234B1Z6", pan_no |-> "AAACE1234B", tan_no |-> "DELE01234C",
   place_of_supply |-> "06-HARYANA", irn_no |-> GoodIRN]

InvoiceText == "Date: 05 Nov 2025\nInvoice: GWBIAR/FB0001/26\nService Month: Oct 2025\n"

\* what extraction reads off the invoice block
InvoiceRead ==
  [date |-> "05 Nov 2025", invoice_no |-> "GWBIAR/FB0001/26",
   service_month |-> "Oct 2025", lower_tds_cert_no |-> ""]

\* the column titles of the table: all of them, without the last one
\* ("Total INR"), or none
TableHeads == [full |-> "Sl.\nResource\nTotal INR\n", cut |-> "Sl.\nResource\n", none |-> ""]

\* the rows of the table
Row(sl_no, resource_name, po_no, bill_rate, code, taxable_value, cgst, sgst, igst, total_inr) ==
  [sl_no |-> sl_no, resource_name |-> resource_name, hsn_sac |-> "998513",
   po_no |-> po_no, bill_rate |-> bill_rate, ericsson_invoice_code |-> code,
   taxable_value |-> taxable_value, cgst |-> cgst, sgst |-> sgst, igst |-> igst,
   total_inr |-> total_inr]

FullMonthRow ==
  Row("1", "SHAILENDRA KUSHWAH", "8000112642", "51980.00", "ERCSIN01233612",
      "51980.00", "0.00", "0.00", "9356.40", "61336.40")

PartMonthRow ==
  Row("2", "PRASHANT KUMAR", "8000111210", "52189.00", "ERCSMI00239725",
      "1739.63", "0.00", "0.00", "313.13", "2052.76")

SeparatorRow ==
  Row("12", "PRASHANT KUMAR", "8000111210", "52,189.00", "ERCSMI00239725",
      "1,739.63", "0.00", "0.00", "313.13", "2,052.76")

IntraStateRow ==
  Row("3", "A B", "8000111210", "100.00", "ERC1", "100.00", "9.00", "9.00", "0.00",
      "118.00")

Rows == {FullMonthRow, PartMonthRow, SeparatorRow, IntraStateRow}

\* the lines of a record in Layout A and in Layout B
RecordText(layout, row) ==
  IF layout = "A" THEN
    row.sl_no \o "\n" \o row.resource_name \o "\n" \o row.hsn_sac \o "\n"
      \o row.po_no \o " " \o row.bill_rate \o "\n"
      \o row.ericsson_invoice_code \o "\n" \o row.taxable_value \o "\n"
      \o row.cgst \o "\n" \o row.sgst \o "\n" \o row.igst \o "\n"
      \o row.total_inr \o "\n"
  ELSE
    row.sl_no \o "\n" \o row.resource_name \o "\n" \o row.hsn_sac \o "\n"
      \o row.po_no \o "\n" \o row.bill_rate \o "\n"
      \o row.ericsson_invoice_code \o " " \o row.taxable_value \o "\n"
      \o row.cgst \o "\n" \o row.sgst \o "\n" \o row.igst \o "\n"
      \o row.total_inr \o "\n"

Layouts == {"A", "B"}

\* the longest table
MaxRows == 2

\* the rows of the tables of more than one record
LongRows == {FullMonthRow, SeparatorRow}

\* the rows of the tables of n records
RowsAt(n) == IF n = 1 THEN Rows ELSE LongRows

\* a table: the layout and the row of each of its records
Tables == UNION {[1..n -> Layouts \X RowsAt(n)] : n \in 0..MaxRows}

RECURSIVE TableText(_, _)
TableText(table, i) ==
  IF i > Len(table) THEN ""
  ELSE RecordText(table[i][1], table[i][2]) \o TableText(table, i + 1)

\* the totals line and the line of the total in words
TotalsLine == "Total Invoice Value 100.00 9.00 9.00 0.00 118.00\n"

WordsLine == "Total Invoice Value (In Words) : Rupees One Hundred Eighteen and Paisa Only.\n"

\* the note, the bank details and the signature
TailText ==
  "NOTE:\n1. Please check the calculation/attendance/amount of the bill\n2. As per the IT rule u/s 194JB\nFor any kind of GST related query, please contact at : gstsupport@geniushrtech.com\nBank details for money transfer as follows\nBeneficiary Name : Genius HRTech Limited\nAccount Number : 00080310000123\nIFSC Code : HDFC0000008\nCountry : India\nDigitally Signed by R Sen\n"

\* page.get_text() of the page of a PDF
PageText(pdf) ==
  (IF pdf.head THEN HeadText ELSE "")
    \o (IF pdf.bill_to THEN BillToText ELSE "")
    \o InvoiceText
    \o TableHeads[pdf.columns]
    \o TableText(pdf.table, 1)
    \o (IF pdf.totals THEN TotalsLine ELSE "")
    \o (IF pdf.words THEN WordsLine ELSE "")
    \o (IF pdf.tail THEN TailText ELSE "")

\* the PDFs with every block but the tail, over all tables
TablePdfs ==
  {[head |-> FALSE, bill_to |-> TRUE, columns |-> "full", table |-> t,
    totals |-> TRUE, words |-> TRUE, tail |-> FALSE, images |-> 2] : t \in Tables}

\* the PDFs that lack some of the blocks
SparsePdfs ==
  [head : BOOLEAN, bill_to : BOOLEAN, columns : DOMAIN TableHeads,
   table : {<<>>, << <<"A", IntraStateRow>> >>}, totals : BOOLEAN, words : BOOLEAN,
   tail : {TRUE}, images : {0}]

Pdfs == TablePdfs \cup SparsePdfs

\* PyMuPDFClient.__init__(pdf_path), with the PDF at that path
PyMuPDFClient__init__(pdf) ==
  /\ text' = PageText(pdf)
  /\ images' = pdf.images
  /\ call' = [op |-> "PyMuPDFClient", args |-> <<pdf>>]
  /\ result' = None
  /\ raised' = ""
  /\ out' = <<>>
  /\ UNCHANGED <<errors, passes, runs, requests, held, files>>

\* PyMuPDFClient.extract_invoice_data
extract_invoice_data ==
  /\ result' = extract_invoice_data_of(text, images)
  /\ call' = [op |-> "extract_invoice_data", args |-> call.args]
  /\ raised' = ""
  /\ out' = <<>>
  /\ UNCHANGED <<errors, passes, text, images, runs, requests, held, files>>

\* self.validator.get_validation_results()
get_validation_results(self_errors, self_passes) ==
  [errors |-> self_errors, passes |-> self_passes]

\* the for loop over the eight one-argument validators, each under its
\* `if key in extracted_data'
OneArgumentChecks(extracted_data) ==
     (IF "letter_head" \in DOMAIN extracted_data
        THEN validate_letter_head_log(extracted_data["letter_head"]) ELSE <<>>)
  \o (IF "tax_invoice" \in DOMAIN extracted_data
        THEN validate_tax_invoice_log(extracted_data["tax_invoice"]) ELSE <<>>)
  \o (IF "bill_to_details" \in DOMAIN extracted_data
        THEN validate_bill_to_details_log(extracted_data["bill_to_details"]) ELSE <<>>)
  \o (IF "invoice_details" \in DOMAIN extracted_data
        THEN validate_invoice_details_log(extracted_data["invoice_details"]) ELSE <<>>)
  \o (IF "note" \in DOMAIN extracted_data
        THEN validate_note_log(extracted_data["note"]) ELSE <<>>)
  \o (IF "beneficiary_details" \in DOMAIN extracted_data
        THEN validate_beneficiary_details_log(extracted_data["beneficiary_details"])
        ELSE <<>>)
  \o (IF "qr_code" \in DOMAIN extracted_data
        THEN validate_qr_code_log(extracted_data["qr_code"]) ELSE <<>>)
  \o (IF "digital_signature" \in DOMAIN extracted_data
        THEN validate_digital_signature_log(extracted_data["digital_signature"])
        ELSE <<>>)

\* the appends of a run after those made before it
AfterLog(log, L) == [log |-> log \o L.log, exc |-> L.exc]

\* the two-argument validator, under its `if ... and ... in extracted_data'
ResourceCheck(log, extracted_data) ==
  IF "resource_and_bill_details" \in DOMAIN extracted_data
       /\ "total_invoice_value" \in DOMAIN extracted_data
    THEN AfterLog(log,
           validate_resource_and_bill_details_run(
             extracted_data["resource_and_bill_details"],
             extracted_data["total_invoice_value"]))
    ELSE [log |-> log, exc |-> ""]

\* the appends of InvoiceProcessor.validate_data and the exception that
\* ended it
validate_data_run(extracted_data) ==
  ResourceCheck(OneArgumentChecks(extracted_data), extracted_data)

\* the end of validate_data: the appends are on the lists of self.validator,
\* and the method returns get_validation_results() unless it raised; every
\* result the processor returned is the same pair of mappings
ValidateDataEnded(extracted_data, R) ==
  /\ errors' = [sec \in Sections |-> errors[sec] \o Appended(R.log, "errors", sec)]
  /\ passes' = [sec \in Sections |-> passes[sec] \o Appended(R.log, "passes", sec)]
  /\ call' = [op |-> "validate_data", args |-> <<extracted_data>>]
  /\ out' = R.log
  /\ raised' = R.exc
  /\ result' = IF R.exc = "" THEN get_validation_results(errors', passes') ELSE None
  /\ runs' = runs + 1
  /\ held' = [i \in 1..(Len(held) + IF R.exc = "" THEN 1 ELSE 0) |->
                get_validation_results(errors', passes')]
  /\ UNCHANGED <<text, images, requests, files>>

\* InvoiceProcessor.validate_data (pymupdf_client/main.py)
validate_data(extracted_data) ==
  ValidateDataEnded(extracted_data, validate_data_run(extracted_data))

\* InvoiceProcessor.__init__: self.validator = InvoiceValidator()
InvoiceProcessor__init__ ==
  /\ errors' = [sec \in Sections |-> <<>>]
  /\ passes' = [sec \in Sections |-> <<>>]
  /\ call' = [op |-> "__init__", args |-> <<>>]
  /\ out' = <<>>
  /\ raised' = ""
  /\ result' = None
  /\ text' = ""
  /\ images' = 0
  /\ runs' = 0
  /\ held' = <<>>
  /\ UNCHANGED <<requests, files>>

\* process(pdf_path) on a new InvoiceProcessor, step by step
NextClient ==
  \/ Fresh /\ \E pdf \in Pdfs : PyMuPDFClient__init__(pdf)
  \/ call.op = "PyMuPDFClient" /\ extract_invoice_data
  \/ call.op = "extract_invoice_data" /\ validate_data(result)
  \/ call.op = "validate_data" /\ InvoiceProcessor__init__

SpecClient == Init /\ [][NextClient]_vars


\* ---------------------------------------------------------------------
\* Claims about extraction followed by validation (SpecClient)

\* the state after extract_invoice_data, and the PDF it read
Extracted == call.op = "extract_invoice_data"

Validated == call.op = "validate_data"

\* the table of the PDF lies between the two anchors of table_block_re
TableAnchored(pdf) == pdf.columns = "full" /\ (pdf.totals \/ pdf.words)

\* C7: validation of the line items and totals that extraction produced
\* returns normally: no exception ends the run.
C7_ReturnsNormally == Validated => raised = ""

\* C8: every record of the table written in Layout A is read back as the
\* line item with the fields of that record: po_no and bill_rate from the
\* combined line, the code from its own line, then the five decimals in
\* order; and the table yields one line item per record.
C8_LayoutA ==
  Extracted /\ TableAnchored(call.args[1]) =>
    /\ Len(result.resource_and_bill_details) = Len(call.args[1].table)
    /\ \A i \in 1..Len(call.args[1].table) :
         call.args[1].table[i][1] = "A" =>
           result.resource_and_bill_details[i] = call.args[1].table[i][2]

\* a table of the one record of the docstring in Layout A was read
C8_Witness ==
  /\ Extracted
  /\ call.args[1].table = << <<"A", FullMonthRow>> >>
  /\ Len(result.resource_and_bill_details) = 1
  /\ result.resource_and_bill_details[1].po_no = "8000112642"
  /\ result.resource_and_bill_details[1].bill_rate = "51980.00"
  /\ result.resource_and_bill_details[1].ericsson_invoice_code = "ERCSIN01233612"
  /\ result.resource_and_bill_details[1].igst = "9356.40"
  /\ result.resource_and_bill_details[1].total_inr = "61336.40"

\* C9: every record of the table written in Layout B is read back as the
\* line item with the fields of that record: po_no from the 10-digit line,
\* bill_rate from the decimal line before the code, the code and
\* taxable_value from the combined line, then the four decimals in order.
C9_LayoutB ==
  Extracted /\ TableAnchored(call.args[1]) =>
    \A i \in 1..Len(call.args[1].table) :
      call.args[1].table[i][1] = "B" =>
        /\ i <= Len(result.resource_and_bill_details)
        /\ result.resource_and_bill_details[i] = call.args[1].table[i][2]

\* a table of the one record of the docstring in Layout B was read
C9_Witness ==
  /\ Extracted
  /\ call.args[1].table = << <<"B", PartMonthRow>> >>
  /\ Len(result.resource_and_bill_details) = 1
  /\ result.resource_and_bill_details[1].po_no = "8000111210"
  /\ result.resource_and_bill_details[1].bill_rate = "52189.00"
  /\ result.resource_and_bill_details[1].ericsson_invoice_code = "ERCSMI00239725"
  /\ result.resource_and_bill_details[1].taxable_value = "1739.63"


\* the keys of the mapping extract_invoice_data returns
TopLevelKeys ==
  {"letter_head", "tax_invoice", "bill_to_details", "invoice_details",
   "resource_and_bill_details", "total_invoice_value", "arn_for_lut", "supply",
   "igst_foregone", "note", "beneficiary_details", "qr_code", "digital_signature"}

\* the keys of its nested mappings
NestedKeys ==
  [letter_head |->
     {"company_name", "former_company_name", "address", "cin", "gstin", "phone",
      "email", "website"},
   tax_invoice |-> {"pan_no", "tan_no"},
   bill_to_details |->
     {"company_name", "address", "gstin", "pan_no", "tan_no", "place_of_supply",
      "irn_no"},
   invoice_details |-> {"date", "invoice_no", "service_month", "lower_tds_cert_no"},
   total_invoice_value |->
     {"taxable_value", "cgst", "sgst", "igst", "total_inr", "in_words"},
   note |-> {"1", "2", "post_script"},
   beneficiary_details |->
     {"beneficiary_name", "bank_name", "address", "reverse_charge", "account_no",
      "ifsc_code", "micr_code", "country", "authorised_signatory"}]

\* the keys whose values are scalars at the top level
ScalarKeys == {"arn_for_lut", "supply", "igst_foregone"}

\* the fields of a line item
LineItemKeys ==
  {"sl_no", "resource_name", "hsn_sac", "po_no", "bill_rate",
   "ericsson_invoice_code", "taxable_value", "cgst", "sgst", "igst", "total_inr"}

\* a str, not None
IsStr(v) == v \in STRING /\ v # None

\* C10: whatever the document text, extract_invoice_data returns a mapping
\* with the 13 top-level keys and the fixed nested keys; every scalar leaf is
\* a string and never None, every line item has its 11 fields as strings,
\* and qr_code and digital_signature are each "True" or "False".
C10_FixedShape ==
  Extracted =>
    /\ DOMAIN result = TopLevelKeys
    /\ \A s \in DOMAIN NestedKeys :
         /\ DOMAIN result[s] = NestedKeys[s]
         /\ \A k \in NestedKeys[s] : IsStr(result[s][k])
    /\ \A k \in ScalarKeys : IsStr(result[k])
    /\ \A i \in 1..Len(result.resource_and_bill_details) :
         /\ DOMAIN result.resource_and_bill_details[i] = LineItemKeys
         /\ \A k \in LineItemKeys : IsStr(result.resource_and_bill_details[i][k])
    /\ result.qr_code \in {"True", "False"}
    /\ result.digital_signature \in {"True", "False"}

\* a text without the letter head and the bill-to block and without images
\* was read, and another field of it was found
C10_Witness ==
  /\ Extracted
  /\ ~call.args[1].head /\ ~call.args[1].bill_to
  /\ result.letter_head.gstin = ""
  /\ result.bill_to_details.irn_no = ""
  /\ result.invoice_details.invoice_no = "GWBIAR/FB0001/26"
  /\ result.qr_code = "False"


\* the keys of total_invoice_value that the totals line fills
TotalsLineKeys == {"taxable_value", "cgst", "sgst", "igst", "total_inr"}

\* the appends of the run to a list of a section
RunAppends(to, sec) == Appended(out, to, sec)

\* the appends of the run to a list that came from the ladder of key k of a
\* section
MadeIn(to, sec, k) == {j \in Made(to, k) : out[j].section = sec}

\* C11, extraction: a text that lacks the table anchors gives an empty list
\* of line items; one that lacks the totals line or the bill-to block gives
\* empty strings for the fields of that part; and every part the text does
\* have is still read.
C11_Extraction ==
  Extracted =>
    /\ ~TableAnchored(call.args[1]) => result.resource_and_bill_details = <<>>
    /\ ~call.args[1].totals =>
         \A k \in TotalsLineKeys : result.total_invoice_value[k] = ""
    /\ ~call.args[1].bill_to =>
         \A k \in DOMAIN BillToRead : result.bill_to_details[k] = ""
    /\ result.invoice_details = InvoiceRead
    /\ call.args[1].bill_to => result.bill_to_details = BillToRead
    /\ call.args[1].totals => result.total_invoice_value.total_inr = "118.00"
    /\ TableAnchored(call.args[1]) =>
         Len(result.resource_and_bill_details) = Len(call.args[1].table)

\* C11, validation: an empty list of line items is reported by the
\* 'NO line items' error alone, with no pass in resource_and_bill; an empty
\* invoice total is reported by an error about total_inr of
\* total_invoice_value, with no pass for it; the empty fields of the bill-to
\* block are each reported by one "missing or empty" error.
C11_Validation ==
  Validated =>
    /\ call.args[1].resource_and_bill_details = <<>> =>
         /\ RunAppends("errors", "resource_and_bill")
              = <<"Resource and bill details list has NO line items.">>
         /\ RunAppends("passes", "resource_and_bill") = <<>>
    /\ call.args[1].resource_and_bill_details # <<>>
         /\ call.args[1].total_invoice_value.total_inr = "" /\ raised = "" =>
         /\ Made("errors", "total_invoice_value.total_inr") # {}
         /\ Made("passes", "total_invoice_value.total_inr") = {}
    /\ \A k \in DOMAIN BillToRead :
         call.args[1].bill_to_details[k] = "" =>
           /\ Cardinality(MadeIn("errors", "bill_to", k)) = 1
           /\ \A j \in MadeIn("errors", "bill_to", k) :
                Contains(out[j].msg, "value is missing or empty")
           /\ MadeIn("passes", "bill_to", k) = {}

\* C11: a text that lacks the table anchors, the totals line or the bill-to
\* block is extracted without the fields of that part and with every other
\* field, and validation reports the absence as error messages.
C11_AbsenceReported == C11_Extraction /\ C11_Validation


(***************************************************************************)
(* One InvoiceProcessor used for several documents: validate_data called   *)
(* again and again on the processor, each time with the mapping extracted  *)
(* from a document.                                                        *)
(***************************************************************************)

\* what extraction returns for a document with all its blocks
FullData ==
  [letter_head |->
     [company_name |-> COMPANY_NAME, former_company_name |-> FORMER_NAME,
      address |-> "", cin |-> "", gstin |-> "29ABCDE1234F1Z5", phone |-> "",
      email |-> EMAIL_ID, website |-> WEBSITE],
   tax_invoice |-> [pan_no |-> "AAACG1234A", tan_no |-> "CALG01234B"],
   bill_to_details |-> BillToRead,
   invoice_details |-> InvoiceRead,
   resource_and_bill_details |-> <<IntraStateRow>>,
   total_invoice_value |->
     [taxable_value |-> "100.00", cgst |-> "9.00", sgst |-> "9.00",
      igst |-> "0.00", total_inr |-> "118.00",
      in_words |-> "Rupees One Hundred Eighteen and Paisa Only."],
   arn_for_lut |-> "",
   supply |-> "",
   igst_foregone |-> "",
   note |->
     ("1" :> "Please check the calculation/attendance/amount of the bill"
      @@ "2" :> "As per the IT rule u/s 194JB"
      @@ "post_script" :>
           "For any kind of GST related query, please contact at : gstsupport@geniushrtech.com"),
   beneficiary_details |->
     [beneficiary_name |-> "Genius HRTech Limited", bank_name |-> "",
      address |-> "", reverse_charge |-> "", account_no |-> "00080310000123",
      ifsc_code |-> "HDFC0000008", micr_code |-> "", country |-> "India",
      authorised_signatory |-> ""],
   qr_code |-> "True",
   digital_signature |-> "True"]

\* the mapping d without the keys K
Omit(d, K) == [k \in DOMAIN d \ K |-> d[k]]

\* the sets of top-level keys a mapping may lack
Omissions ==
  {{}, {"letter_head"}, {"total_invoice_value"}, {"resource_and_bill_details"},
   {"note", "beneficiary_details"}, {"qr_code", "digital_signature"},
   {"tax_invoice", "bill_to_details", "invoice_details"}, DOMAIN FullData}

\* the mappings validate_data is called with
ProcessorDatas ==
  {Omit(FullData, K) : K \in Omissions}
    \cup {[FullData EXCEPT !.resource_and_bill_details = <<>>],
          [FullData EXCEPT !.resource_and_bill_details = <<SeparatorRow>>],
          [FullData EXCEPT !.qr_code = "False"],
          [FullData EXCEPT !.tax_invoice = [pan_no |-> "", tan_no |-> ""]]}

\* the most runs of one processor
MaxRuns == 2

\* validate_data on the processor at hand, or a new processor
NextProcessor ==
  \/ runs < MaxRuns
       /\ \E extracted_data \in ProcessorDatas : validate_data(extracted_data)
  \/ runs > 0 /\ InvoiceProcessor__init__

SpecProcessor == Init /\ [][NextProcessor]_vars

\* the top-level keys the section validators are handed
SectionKeys ==
  {"letter_head", "tax_invoice", "bill_to_details", "invoice_details", "note",
   "beneficiary_details", "qr_code", "digital_signature",
   "resource_and_bill_details", "total_invoice_value"}

\* the result of the run holds the messages of the run and no others
OwnMessages ==
  \A sec \in Sections :
    /\ result.errors[sec] = RunAppends("errors", sec)
    /\ result.passes[sec] = RunAppends("passes", sec)

\* what the caller holds is as it was when returned
HeldUnchanged == \A i \in DOMAIN held : i \in DOMAIN held' => held'[i] = held[i]

\* C13: over any sequence of runs of one InvoiceProcessor, the result a run
\* returns holds only the messages made from the document of that run, and
\* a result returned by an earlier run is not changed by a later run.
C13_RunsApart ==
  /\ [](Validated /\ raised = "" => OwnMessages)
  /\ [][HeldUnchanged]_vars

\* C15: a run on a mapping that lacks a top-level key a section validator
\* needs ends in an exception and returns no validation result.
C15_MissingSectionFails ==
  Validated /\ SectionKeys \ DOMAIN call.args[1] # {} =>
    raised # "" /\ result = None


(***************************************************************************)
(* The API: requests handled by the one InvoiceProcessingAPI instance      *)
(* (api_handler), their _validate_data calls interleaved call by call.     *)
(* Validator number 0 is self.validator of the instance (the variables     *)
(* errors and passes); validator number r > 0 is the one request r made.   *)
(***************************************************************************)

\* a request that validates on self.validator of the API instance
\* (validator number 0) instead of a validator of its own
SelfValidator(r) == 0

\* `validator = InvoiceValidator()' in _validate_data of request r: the
\* number of the validator the request validates on, a new one of its own
LocalValidator(r) == r

\* the lists of validator number v
ValidatorLists(v) ==
  IF v = 0 THEN [errors |-> errors, passes |-> passes]
  ELSE [errors |-> requests[v].errors, passes |-> requests[v].passes]

\* the mappings extracted for the requests
APIDatas ==
  {FullData, Omit([FullData EXCEPT !.qr_code = "False"], {"letter_head"}),
   [FullData EXCEPT !.resource_and_bill_details = <<SeparatorRow>>]}

\* the most requests in flight
MaxRequests == 2

\* the positions of a _validate_data call: before its n-th `if', at its
\* return statement, and after it ended
LastCheck == 9
AtReturn == 10
Ended == 11

\* the n-th `if' of _validate_data: the appends of the validator it calls and
\* the exception that ended it
NthCheck(n, extracted_data) ==
  CASE n = 1 ->
         [log |-> IF "letter_head" \in DOMAIN extracted_data
                    THEN validate_letter_head_log(extracted_data["letter_head"])
                    ELSE <<>>, exc |-> ""]
    [] n = 2 ->
         [log |-> IF "tax_invoice" \in DOMAIN extracted_data
                    THEN validate_tax_invoice_log(extracted_data["tax_invoice"])
                    ELSE <<>>, exc |-> ""]
    [] n = 3 ->
         [log |-> IF "bill_to_details" \in DOMAIN extracted_data
                    THEN validate_bill_to_details_log(extracted_data["bill_to_details"])
                    ELSE <<>>, exc |-> ""]
    [] n = 4 ->
         [log |-> IF "invoice_details" \in DOMAIN extracted_data
                    THEN validate_invoice_details_log(extracted_data["invoice_details"])
                    ELSE <<>>, exc |-> ""]
    [] n = 5 -> ResourceCheck(<<>>, extracted_data)
    [] n = 6 ->
         [log |-> IF "note" \in DOMAIN extracted_data
                    THEN validate_note_log(extracted_data["note"])
                    ELSE <<>>, exc |-> ""]
    [] n = 7 ->
         [log |-> IF "beneficiary_details" \in DOMAIN extracted_data
                    THEN validate_beneficiary_details_log(
                           extracted_data["beneficiary_details"])
                    ELSE <<>>, exc |-> ""]
    [] n = 8 ->
         [log |-> IF "qr_code" \in DOMAIN extracted_data
                    THEN validate_qr_code_log(extracted_data["qr_code"])
                    ELSE <<>>, exc |-> ""]
    [] n = 9 ->
         [log |-> IF "digital_signature" \in DOMAIN extracted_data
                    THEN validate_digital_signature_log(
                           extracted_data["digital_signature"])
                    ELSE <<>>, exc |-> ""]

\* the lists after the appends of log
ListsAfter(lists, log) ==
  [errors |-> [sec \in Sections |-> lists.errors[sec] \o Appended(log, "errors", sec)],
   passes |-> [sec \in Sections |-> lists.passes[sec] \o Appended(log, "passes", sec)]]

\* _validate_data(extracted_data) entered by a new request:
\* self._initialize_clients() (self.validator is there already) and
\* validator = InvoiceValidator()
_validate_data_enter(extracted_data) ==
  /\ requests' =
       Append(requests,
              [extracted_data |-> extracted_data,
               validator |-> LocalValidator(Len(requests) + 1),
               errors |-> [sec \in Sections |-> <<>>],
               passes |-> [sec \in Sections |-> <<>>],
               pc |-> 1, out |-> <<>>, raised |-> "", result |-> None])
  /\ call' = [op |-> "_validate_data", args |-> <<extracted_data>>]
  /\ UNCHANGED <<errors, passes, out, raised, result, text, images, runs, held, files>>

\* request r after its check appended log to the lists of its validator and
\* ended with exc
Checked(r, v, L, lists) ==
  /\ requests' =
       IF v = 0
         THEN [requests EXCEPT ![r].out = @ \o L.log, ![r].raised = L.exc,
                               ![r].pc = IF L.exc = "" THEN @ + 1 ELSE Ended]
         ELSE [requests EXCEPT ![v].errors = lists.errors,
                               ![v].passes = lists.passes,
                               ![r].out = @ \o L.log, ![r].raised = L.exc,
                               ![r].pc = IF L.exc = "" THEN @ + 1 ELSE Ended]
  /\ errors' = IF v = 0 THEN lists.errors ELSE errors
  /\ passes' = IF v = 0 THEN lists.passes ELSE passes

\* the next `if' of the _validate_data call of request r
_validate_data_check(r) ==
  /\ requests[r].pc <= LastCheck
  /\ Checked(r, requests[r].validator,
             NthCheck(requests[r].pc, requests[r].extracted_data),
             ListsAfter(ValidatorLists(requests[r].validator),
                        NthCheck(requests[r].pc, requests[r].extracted_data).log))
  /\ call' = [op |-> "_validate_data", args |-> <<requests[r].extracted_data>>]
  /\ UNCHANGED <<out, raised, result, text, images, runs, held, files>>

\* return validator.get_validation_results() of request r
_validate_data_return(r) ==
  /\ requests[r].pc = AtReturn
  /\ requests' =
       [requests EXCEPT
          ![r].result =
            get_validation_results(ValidatorLists(requests[r].validator).errors,
                                   ValidatorLists(requests[r].validator).passes),
          ![r].pc = Ended]
  /\ call' = [op |-> "_validate_data", args |-> <<requests[r].extracted_data>>]
  /\ UNCHANGED <<errors, passes, out, raised, result, text, images, runs, held, files>>

\* the responses of the requests were sent: none is in flight
Responded ==
  /\ requests # <<>>
  /\ \A r \in DOMAIN requests : requests[r].pc = Ended
  /\ requests' = <<>>
  /\ call' = [op |-> "__init__", args |-> <<>>]
  /\ UNCHANGED <<errors, passes, out, raised, result, text, images, runs, held, files>>

NextAPI ==
  \/ Len(requests) < MaxRequests
       /\ \E extracted_data \in APIDatas : _validate_data_enter(extracted_data)
  \/ \E r \in DOMAIN requests : _validate_data_check(r)
  \/ \E r \in DOMAIN requests : _validate_data_return(r)
  \/ Responded

SpecAPI == Init /\ [][NextAPI]_vars

\* request r got its validation_results
Answered(r) == requests[r].pc = Ended /\ requests[r].raised = ""

\* the validation_results of request r hold the messages its own checks
\* made, all of them and no others
OwnResults(r) ==
  \A sec \in Sections :
    /\ requests[r].result.errors[sec] = Appended(requests[r].out, "errors", sec)
    /\ requests[r].result.passes[sec] = Appended(requests[r].out, "passes", sec)

\* C14: however the requests handled by the one API instance interleave,
\* the validation_results of a request hold exactly the messages made from
\* the extracted data of that request.
C14_RequestsApart ==
  \A r \in DOMAIN requests : Answered(r) => OwnResults(r)

\* a request got its results while another request, for another document,
\* was in the middle of its checks and had made messages
C14_Witness ==
  /\ Len(requests) = 2
  /\ Answered(2)
  /\ requests[2].result.errors["qr_code"] # <<>>
  /\ requests[1].pc \in 2..LastCheck
  /\ requests[1].out # <<>>
  /\ requests[1].extracted_data # requests[2].extracted_data


(***************************************************************************)
(* Further properties of the tax checks (specification Spec).              *)
(***************************************************************************)

\* the percentage of the taxable value of the last line item, in paise,
\* rounded half up to a whole paisa
HalfUp(percent) == (percent * LastPaise("taxable_value") + 50) \div 100

\* C21: the expected CGST, SGST and IGST amounts the tax checks use are 9%,
\* 9% and 18% of the taxable value rounded half up to 2 decimals: an
\* inter-state item passes the tax check exactly when its IGST is that
\* amount, an intra-state item exactly when its CGST and SGST are.
C21_HalfUpAmounts ==
  TaxChecked =>
    /\ LastPaise("igst") > 0 /\ LastPaise("cgst") = 0 /\ LastPaise("sgst") = 0 =>
         (Made("passes", "tax") # {} <=> LastPaise("igst") = HalfUp(igst_percent))
    /\ LastPaise("igst") = 0 /\ LastPaise("cgst") > 0 /\ LastPaise("sgst") > 0 =>
         (Made("passes", "tax") # {}
            <=> /\ LastPaise("cgst") = HalfUp(cgst_percent)
                /\ LastPaise("sgst") = HalfUp(sgst_percent))


(***************************************************************************)
(* The scan of one record by the table parser, turn by turn.  In this      *)
(* specification call is the turn of `while i < len(lines)' that ran last: *)
(* its arguments are the lines of the record before the scan (lines[0:3]), *)
(* the index i + 1 of the line of the turn and that line; result is the    *)
(* locals po_no, bill_rate, inv_code, taxable and trailing_floats after    *)
(* the turn, and after rows.append the record that was appended.           *)
(***************************************************************************)

\* the first lines of a record: serial number, name, code
HeadLines == {<<"7", "A B", "998513">>, <<"7", "A B">>}

\* the lines the scan meets: a PO number, a PO number with a rate, bare
\* decimals, an invoice code, an invoice code with a taxable value, and a
\* line of no known shape
ScanShapes ==
  {"8000111210", "8000111299 3.00", "1.00", "2.00", "ERCSIN01", "ERCSMI02 4.00",
   "n/a"}

\* the most lines of a record
MaxLines == 9

\* `i = 3' and the loop test before the first turn
ScanStart(head) ==
  /\ call' = [op |-> "scan", args |-> <<head, Len(head), "">>]
  /\ result' = ScanLines(Scan0, head, 4)
  /\ raised' = ""
  /\ out' = <<>>
  /\ UNCHANGED <<errors, passes, text, images, runs, requests, held, files>>

\* one turn of the loop, on the line at index i + 1
ScanTurn(line) ==
  /\ call' = [op |-> "scan", args |-> <<call.args[1], call.args[2] + 1, line>>]
  /\ result' = ScanLine(result, line)
  /\ UNCHANGED <<errors, passes, out, raised, text, images, runs, requests, held, files>>

\* the loop ended: rows.append({...})
RowAppended ==
  /\ call' = [op |-> "rows.append", args |-> call.args]
  /\ result' = ScannedRow(call.args[1], result)
  /\ UNCHANGED <<errors, passes, out, raised, text, images, runs, requests, held, files>>

NextScan ==
  \/ call.op # "scan" /\ \E head \in HeadLines : ScanStart(head)
  \/ call.op = "scan" /\ Len(call.args[1]) = 3 /\ call.args[2] < MaxLines
       /\ \E line \in ScanShapes : ScanTurn(line)
  \/ call.op = "scan" /\ RowAppended

SpecScan == Init /\ [][NextScan]_vars


\* the turn that ran last was a turn of the scan on this line
Turned(line) == call.op = "scan" /\ call.args[3] = line

\* this step is a turn of the scan
Turn == call.op = "scan" /\ call'.op = "scan"

\* the lines that are one decimal and nothing else
BareDecimals == {"1.00", "2.00"}

\* the locals of the scan that hold one field of the record
ScanFields == {"po_no", "bill_rate", "inv_code", "taxable"}

\* C23: during the scan of one record's lines each of po_no, bill_rate,
\* ericsson_invoice_code and taxable_value is assigned at most once: after
\* the field holds a non-empty value no later line of the record changes it,
\* and the appended record carries the values the scan ended with.
C23_FirstMatchWins ==
  [][/\ Turn => \A k \in ScanFields : result[k] # "" => result'[k] = result[k]
     /\ call.op = "scan" /\ call'.op = "rows.append" =>
          /\ result'.po_no = result.po_no
          /\ result'.bill_rate = result.bill_rate
          /\ result'.ericsson_invoice_code = result.inv_code
          /\ result'.taxable_value = result.taxable]_vars

\* a combined PO line of Layout A met after another PO number was captured
C23_Witness ==
  /\ Turned("8000111299 3.00")
  /\ result.po_no = "8000111210"
  /\ result.bill_rate = "1.00"

\* C24: a bare decimal line is taken as bill_rate only if a PO number was
\* captured before, bill_rate is still empty and no invoice code was captured;
\* a bare decimal line met before any PO number and before the invoice code
\* is assigned to no field; one met after the invoice code is never assigned
\* to bill_rate.
C24_RateAfterPo ==
  [][Turn /\ call'.args[3] \in BareDecimals =>
       /\ result'.bill_rate # result.bill_rate =>
            /\ result.po_no # "" /\ result.bill_rate = "" /\ result.inv_code = ""
            /\ result'.bill_rate = call'.args[3]
       /\ result.po_no = "" /\ result.inv_code = "" => result' = result
       /\ result.inv_code # "" => result'.bill_rate = result.bill_rate]_vars

\* the rate of Layout B: a bare decimal taken after a PO number met alone
C24_Witness ==
  /\ Turned("2.00")
  /\ result.po_no = "8000111210"
  /\ result.bill_rate = "2.00"
  /\ result.inv_code = ""

\* the first four of the trailing decimals, "" where there are fewer
FirstFour(tf) == [n \in 1..4 |-> IF n <= Len(tf) THEN tf[n] ELSE ""]

\* C25: after the invoice code of a record was captured, a bare decimal line
\* fills taxable_value if it is still empty and joins the trailing decimals
\* otherwise, changing nothing else; the appended record has the first four
\* trailing decimals, in order, as cgst, sgst, igst and total_inr, the empty
\* string where there are fewer, and no later one.
C25_TrailingDecimals ==
  [][/\ Turn /\ call'.args[3] \in BareDecimals /\ result.inv_code # "" =>
          IF result.taxable = ""
            THEN result' = [result EXCEPT !.taxable = call'.args[3]]
            ELSE result' = [result EXCEPT
                              !.trailing_floats = Append(@, call'.args[3])]
     /\ call.op = "scan" /\ call'.op = "rows.append" =>
          <<result'.cgst, result'.sgst, result'.igst, result'.total_inr>>
            = FirstFour(result.trailing_floats)]_vars

\* a record appended after three trailing decimals
C25_Witness ==
  /\ call.op = "rows.append"
  /\ result.taxable_value = "4.00"
  /\ result.cgst = "1.00" /\ result.sgst = "2.00" /\ result.igst = "2.00"
  /\ result.total_inr = ""


(***************************************************************************)
(* The table parser on blocks of chunks.  A chunk is the text from one     *)
(* line that is a serial number alone up to the next such line; the text   *)
(* before the first serial number is a chunk too.                          *)
(***************************************************************************)

\* chunks that start with a serial number, as sequences of lines: the two
\* layouts, mis-shaped second and third lines, second and third lines of
\* the shapes of other fields, one line only, a blank second line,
\* unknown lines, later lines of the shapes of the second and third
SerialChunks ==
  {<<"7", "A B", "998513", "8000111210 3.00", "ERCSIN01", "5.00", "1.00",
     "2.00", "0.00", "6.00">>,
   <<"42", "RAHUL KUMAR", "998513", "8000111210", "3.00", "ERCSIN01 5.00",
     "1.00", "2.00">>,
   <<"12", "a b", "99851">>,
   <<"3", "ERCSMI02 4.00", "8000111299 9.00", "1.00">>,
   <<"9", "ABCD", "8000111299", "8000111210", "2.00">>,
   <<"5">>,
   <<"55", " ">>,
   <<"8", "n/a">>,
   <<"100", "C D", "123456", "E F", "654321">>}

\* chunks that do not: text before the first serial number
LeadingChunks == {<<"Sl.", "x">>, <<"1234", "A B">>}

\* the most chunks of a block
MaxChunks == 2

\* the blocks: chunks in order, the text before the first serial number first
Blocks ==
  UNION {{b \in [1..n -> SerialChunks \cup LeadingChunks] :
            \A i \in 2..n : b[i] \in SerialChunks} : n \in 0..MaxChunks}

RECURSIVE ChunkText(_, _)
ChunkText(chunk, i) ==
  IF i > Len(chunk) THEN "" ELSE chunk[i] \o "\n" \o ChunkText(chunk, i + 1)

RECURSIVE BlockText(_, _)
BlockText(block, i) ==
  IF i > Len(block) THEN ""
  ELSE ChunkText(block[i], 1) \o BlockText(block, i + 1)

\* _extract_resource_and_bill_details on the page with this block between
\* the column headings and the totals line
_extract_resource_and_bill_details_call(block) ==
  /\ text' = TableHeads["full"] \o BlockText(block, 1) \o TotalsLine
  /\ call' = [op |-> "_extract_resource_and_bill_details", args |-> <<block>>]
  /\ result' = _extract_resource_and_bill_details(text')
  /\ raised' = ""
  /\ out' = <<>>
  /\ UNCHANGED <<errors, passes, images, runs, requests, held, files>>

\* one parse of one block by a new client
NextTable ==
  Fresh /\ \E block \in Blocks : _extract_resource_and_bill_details_call(block)

SpecTable == Init /\ [][NextTable]_vars

TableCall == call.op = "_extract_resource_and_bill_details"

\* the lines that are words in upper case, and those that are six digits
UpperWordLines == {"A B", "RAHUL KUMAR", "ABCD", "C D", "E F"}
SixDigitLines == {"998513", "123456", "654321"}

\* the lines that are a serial number
SerialLines == {c[1] : c \in SerialChunks}

\* the chunk of the block of the call that starts with this serial number
ChunkOf(sl_no) ==
  CHOOSE c \in SerialChunks :
    c[1] = sl_no /\ \E i \in 1..Len(call.args[1]) : call.args[1][i] = c

\* the line and the blank-separated tokens on it
Tokens(line) == {line} \cup {Split(line)[n] : n \in 1..Len(Split(line))}

\* the fields of a record besides sl_no, resource_name and hsn_sac
ScannedKeys ==
  {"po_no", "bill_rate", "ericsson_invoice_code", "taxable_value", "cgst",
   "sgst", "igst", "total_inr"}

\* resource_name, hsn_sac and the other fields of one record against the
\* lines of its chunk
FromOwnLines(r, c) ==
  /\ r.resource_name # "" => Len(c) > 1 /\ r.resource_name = c[2]
  /\ r.resource_name # "" <=> Len(c) > 1 /\ c[2] \in UpperWordLines
  /\ r.hsn_sac # "" => Len(c) > 2 /\ r.hsn_sac = c[3]
  /\ r.hsn_sac # "" <=> Len(c) > 2 /\ c[3] \in SixDigitLines
  /\ \A k \in ScannedKeys :
       r[k] = "" \/ \E n \in 4..Len(c) : r[k] \in Tokens(c[n])

\* C26: resource_name is taken only from the second line of the record and
\* only if that line is words in upper case, hsn_sac only from the third line
\* and only if it is six digits, otherwise they are the empty string; no other
\* line gives these two fields, and the second and third lines give no other
\* field.
C26_SecondAndThirdLine ==
  TableCall =>
    \A j \in 1..Len(result) : FromOwnLines(result[j], ChunkOf(result[j].sl_no))

\* a record whose second and third lines have the shapes of an invoice code
\* and a PO number, next to a record with a mis-shaped name and code
C26_Witness ==
  /\ TableCall
  /\ Len(result) = 2
  /\ result[1].sl_no = "9" /\ result[1].resource_name = "ABCD"
  /\ result[1].hsn_sac = "" /\ result[1].po_no = "8000111210"
  /\ result[2].sl_no = "12" /\ result[2].resource_name = ""

\* the chunk gives a record: its first line is a serial number and it has
\* two lines that are not blank
Emits(c) ==
  /\ (c[1] \in SerialLines)
  /\ Cardinality({n \in 1..Len(c) : c[n] # " "}) >= 2

\* C27: the parser emits exactly one record for every chunk whose first line
\* is a bare integer of 1 to 3 digits and which has at least two non-empty
\* lines, whatever the shape of its other lines, with sl_no that first line;
\* it emits none for any other chunk, and the records are in the order of
\* their chunks.  (Refuted: a serial number on the last line of the block
\* starts no chunk for the split, so the one-line chunk before it gives a
\* record.)
C27_OneRecordPerChunk ==
  TableCall =>
    [j \in 1..Len(result) |-> result[j].sl_no]
      = [j \in 1..Len(SelectSeq(call.args[1], Emits)) |->
           SelectSeq(call.args[1], Emits)[j][1]]


(* The parties of the page (specification SpecClient). *)
\* the PAN and the TAN of the buyer, in the bill-to block
BuyerIds == [pan_no |-> BillToRead.pan_no, tan_no |-> BillToRead.tan_no]

\* the page has the bill-to block: the marker "Bill To:-" and, after it, the
\* "Sl." of the column titles
HasBillToBlock(pdf) == pdf.bill_to /\ pdf.columns # "none"

\* C28: no extracted PAN or TAN is taken from an occurrence of the other
\* party: pan_no and tan_no of bill_to_details are those of the bill-to block
\* or, when the page has no such block, the empty string, and pan_no and
\* tan_no of tax_invoice are never those of the bill-to block.
C28_OwnParty ==
  Extracted =>
    \A k \in {"pan_no", "tan_no"} :
      /\ result.bill_to_details[k] =
           (IF HasBillToBlock(call.args[1]) THEN BuyerIds[k] ELSE "")
      /\ result.tax_invoice[k] # BuyerIds[k]


(***************************************************************************)
(* Calls of the section validators one after another on one validator.     *)
(***************************************************************************)

\* the mapping with every value the empty string
Emptied(d) == [k \in DOMAIN d |-> ""]

\* the arguments of the one-argument validators: a section as extracted
\* from a full document, and the same with nothing read
CallArgs(key) ==
  IF key \in {"qr_code", "digital_signature"} THEN {FullData[key], ""}
  ELSE {FullData[key], Emptied(FullData[key])}

\* the messages in the lists of the validator
RECURSIVE MessagesOf(_)
MessagesOf(secs) ==
  IF secs = {} THEN 0
  ELSE LET sec == CHOOSE s \in secs : TRUE
       IN  Len(errors[sec]) + Len(passes[sec]) + MessagesOf(secs \ {sec})

\* the most messages in the lists before a call
MaxMessages == 5

\* the lists have room for the messages of one more call
Room == MessagesOf(Sections) <= MaxMessages

NextCalls ==
  \/ Room /\ \E letter_head \in CallArgs("letter_head") :
               validate_letter_head(letter_head)
  \/ Room /\ \E tax_invoice \in CallArgs("tax_invoice") :
               validate_tax_invoice(tax_invoice)
  \/ Room /\ \E bill_to \in CallArgs("bill_to_details") :
               validate_bill_to_details(bill_to)
  \/ Room /\ \E invoice \in CallArgs("invoice_details") :
               validate_invoice_details(invoice)
  \/ Room /\ validate_resource_and_bill_details(
               FullData.resource_and_bill_details, FullData.total_invoice_value)
  \/ Room /\ \E note \in CallArgs("note") : validate_note(note)
  \/ Room /\ \E beneficiary \in CallArgs("beneficiary_details") :
               validate_beneficiary_details(beneficiary)
  \/ Room /\ \E qr_code \in CallArgs("qr_code") : validate_qr_code(qr_code)
  \/ Room /\ \E digital_signature \in CallArgs("digital_signature") :
               validate_digital_signature(digital_signature)
  \/ ~Room /\ InvoiceValidator__init__

SpecCalls == Init /\ [][NextCalls]_vars

\* the section of each validate_* method
SectionOf ==
  [validate_letter_head |-> "letter_head",
   validate_tax_invoice |-> "tax_invoice",
   validate_bill_to_details |-> "bill_to",
   validate_invoice_details |-> "invoice",
   validate_resource_and_bill_details |-> "resource_and_bill",
   validate_note |-> "note",
   validate_beneficiary_details |-> "beneficiary",
   validate_qr_code |-> "qr_code",
   validate_digital_signature |-> "digital_signature"]

\* list s is the beginning of list t
StartsWith(t, s) == Len(s) <= Len(t) /\ SubSeq(t, 1, Len(s)) = s

\* C29: every validate_* method only appends to the error and pass lists of
\* its own section: after any sequence of calls errors and passes have
\* exactly the nine section keys, a call leaves the lists of all other
\* sections as they were, and the messages already in a list keep their
\* content and order.
C29_OwnSectionOnly ==
  [][/\ DOMAIN errors' = DOMAIN errors /\ DOMAIN passes' = DOMAIN passes
     /\ DOMAIN errors' = {SectionOf[op] : op \in DOMAIN SectionOf}
     /\ call'.op \in DOMAIN SectionOf =>
          \A sec \in DOMAIN errors :
            /\ StartsWith(errors'[sec], errors[sec])
            /\ StartsWith(passes'[sec], passes[sec])
            /\ sec # SectionOf[call'.op] =>
                 errors'[sec] = errors[sec] /\ passes'[sec] = passes[sec]]_vars

\* a validator was called a second time, after a call for another section
C29_Witness ==
  /\ call.op = "validate_qr_code"
  /\ Len(errors.qr_code) = 1 /\ Len(passes.qr_code) = 1
  /\ Len(out) = 1
  /\ errors.tax_invoice # <<>>


(***************************************************************************)
(* POST /process-invoices-from-api (pymupdf_client/api.py).  The request   *)
(* in flight is requests[1]: the list it fetched, the position i of the    *)
(* for loop, the counters and the results of the run.                      *)
(***************************************************************************)

\* the records of Response_Data: a PDF that can be downloaded, a second
\* one, and a record without a Url
ApiInvoices ==
  {[BillID |-> "GWBIAR/FB0001/26", Url |-> "https://gsppi/1.pdf", DocType |-> ""],
   [BillID |-> "GWBIAR/FB0002/26", Url |-> "https://gsppi/2.pdf", DocType |-> ""],
   [BillID |-> "GWBIAR/FB0003/26", Url |-> "", DocType |-> ""]}

\* the most invoices of one response of the GSPPI API
MaxInvoices == 2

InvoiceLists == UNION {[1..n -> ApiInvoices] : n \in 0..MaxInvoices}

\* how a call made by the loop can end: "" when it returns.
\* download_pdf_from_url raises ValueError for an empty url and RuntimeError
\* when the download fails; _validate_pdf_structure, _extract_data and
\* _validate_data raise HTTPException or let an exception of the validator
\* through; update_processed_log raises IOError
DownloadEnds(url) == IF url = "" THEN {"ValueError"} ELSE {"", "RuntimeError"}
StepEnds == {"", "HTTPException", "ValueError"}
LogEnds == {"", "IOError"}

\* update_processed_log(bill_id, status): the log read, the entry of bill_id
\* set, the log written
update_processed_log(f, bill_id, status) ==
  [f EXCEPT !.log = [b \in DOMAIN f.log \cup {bill_id} |->
                       IF b = bill_id THEN status ELSE f.log[b]],
            !.written = Append(@, [bill_id |-> bill_id, status |-> status])]

\* the disk with the temporary file of the invoice at position i downloaded
Downloaded(f, i) == [f EXCEPT !.tmp = @ \cup {i}]

\* `finally: if pdf_tmp_path: api_handler._cleanup_temp_file(pdf_tmp_path)':
\* os.remove, or the warning when os.remove raised; pdf_tmp_path is the set
\* of the one path, or the empty set for None
Cleaned(f, pdf_tmp_path, removed) ==
  IF pdf_tmp_path # {} /\ removed THEN [f EXCEPT !.tmp = @ \ pdf_tmp_path]
  ELSE f

\* the try block of the loop for the invoice at position i: the exception
\* that ended it and the disk after it
TryBlock(f, i, bill_id, download, step, logged) ==
  IF download # "" THEN [exc |-> download, files |-> f, path |-> {}]
  ELSE IF step # "" THEN [exc |-> step, files |-> Downloaded(f, i), path |-> {i}]
  ELSE IF logged # ""
    THEN [exc |-> logged, files |-> Downloaded(f, i), path |-> {i}]
  ELSE [exc |-> "",
        files |-> update_processed_log(Downloaded(f, i), bill_id, "success"),
        path |-> {i}]

\* the request after the body of the loop ran for the invoice at i: T is
\* what the try block did, relogged how update_processed_log ended in the
\* except block
LoopBody(q, T, bill_id, relogged, removed) ==
  /\ requests' =
       <<IF T.exc = ""
           THEN [q EXCEPT !.i = @ + 1, !.succeeded = @ + 1,
                          !.results = [b \in DOMAIN @ \cup {bill_id} |->
                                         IF b = bill_id THEN "success" ELSE @[b]]]
         ELSE IF relogged = ""
           THEN [q EXCEPT !.i = @ + 1, !.failed = @ + 1,
                          !.results = [b \in DOMAIN @ \cup {bill_id} |->
                                         IF b = bill_id THEN "failed" ELSE @[b]]]
         ELSE [q EXCEPT !.pc = "ended", !.raised = relogged]>>
  /\ files' =
       Cleaned(IF T.exc # "" /\ relogged = ""
                 THEN update_processed_log(T.files, bill_id, "failed")
                 ELSE T.files,
               T.path, removed)

\* the request arrives: fetch_digital_invoices() returned invoice_list
process_invoices_from_api_endpoint(invoice_list) ==
  /\ requests' =
       <<[fetched |-> TRUE, invoice_list |-> invoice_list, i |-> 1,
          succeeded |-> 0, failed |-> 0, results |-> <<>>, pc |-> "for",
          raised |-> "", response |-> None]>>
  /\ call' = [op |-> "process_invoices_from_api_endpoint", args |-> <<>>]
  /\ UNCHANGED <<errors, passes, out, raised, result, text, images, runs, held, files>>

\* the request arrives and fetch_digital_invoices() raised RuntimeError
FetchFailed ==
  /\ requests' =
       <<[fetched |-> FALSE, invoice_list |-> <<>>, i |-> 1, succeeded |-> 0,
          failed |-> 0, results |-> <<>>, pc |-> "ended",
          raised |-> "HTTPException", response |-> None]>>
  /\ call' = [op |-> "process_invoices_from_api_endpoint", args |-> <<>>]
  /\ UNCHANGED <<errors, passes, out, raised, result, text, images, runs, held, files>>

\* one turn of `for invoice in invoice_list'
ForInvoice(download, step, logged, relogged, removed) ==
  /\ LoopBody(requests[1],
              TryBlock(files, requests[1].i,
                       requests[1].invoice_list[requests[1].i].BillID,
                       download, step, logged),
              requests[1].invoice_list[requests[1].i].BillID, relogged, removed)
  /\ call' = [op |-> "process_invoices_from_api_endpoint", args |-> <<>>]
  /\ UNCHANGED <<errors, passes, out, raised, result, text, images, runs, held>>

\* return JSONResponse(...)
BatchReturned ==
  /\ requests' =
       <<[requests[1] EXCEPT
            !.pc = "ended",
            !.response =
              [status |-> "success",
               summary |-> [total_fetched |-> Len(requests[1].invoice_list),
                            succeeded |-> requests[1].succeeded,
                            failed |-> requests[1].failed],
               results |-> requests[1].results]]>>
  /\ call' = [op |-> "process_invoices_from_api_endpoint", args |-> <<>>]
  /\ UNCHANGED <<errors, passes, out, raised, result, text, images, runs, held, files>>

\* the service set up anew, without the files of the run before
Redeployed ==
  /\ requests' = <<>>
  /\ files' = NoFiles
  /\ call' = [op |-> "__init__", args |-> <<>>]
  /\ UNCHANGED <<errors, passes, out, raised, result, text, images, runs, held>>

\* the request is in its loop, at an invoice of the list
InLoop ==
  /\ requests # <<>>
  /\ requests[1].pc = "for"
  /\ requests[1].i <= Len(requests[1].invoice_list)

NextBatch ==
  \/ requests = <<>> /\ \E invoice_list \in InvoiceLists :
       process_invoices_from_api_endpoint(invoice_list)
  \/ requests = <<>> /\ FetchFailed
  \/ InLoop /\
       \E download \in DownloadEnds(requests[1].invoice_list[requests[1].i].Url),
          step \in StepEnds, logged \in LogEnds, relogged \in LogEnds,
          removed \in BOOLEAN :
         ForInvoice(download, step, logged, relogged, removed)
  \/ requests # <<>> /\ requests[1].pc = "for" /\ ~InLoop /\ BatchReturned
  \/ requests # <<>> /\ requests[1].pc = "ended" /\ Redeployed

SpecBatch == Init /\ [][NextBatch]_vars

\* the run of the request ended, after the GSPPI API returned its list
RunEnded ==
  /\ requests # <<>>
  /\ requests[1].pc = "ended"
  /\ requests[1].fetched

\* C22: every invoice returned by the GSPPI API is processed whatever the
\* outcome of the invoices before it: no failure on one invoice ends the
\* run, the processed log gets one write per invoice, in order, with the
\* outcome of that invoice ("success" or "failed"), and the reported
\* succeeded + failed is total_fetched.
C22_AllProcessed ==
  RunEnded =>
    /\ requests[1].raised = ""
    /\ Len(files.written) = Len(requests[1].invoice_list)
    /\ \A n \in DOMAIN files.written :
         /\ files.written[n].bill_id = requests[1].invoice_list[n].BillID
         /\ files.written[n].status \in {"success", "failed"}
    /\ requests[1].response.summary.total_fetched = Len(requests[1].invoice_list)
    /\ requests[1].response.summary.succeeded + requests[1].response.summary.failed
         = requests[1].response.summary.total_fetched


(***************************************************************************)
(* InvoiceProcessingAPI.process_invoice (pymupdf_client/api.py), step by   *)
(* step.  The call in progress is requests[1]: the upload, the position in *)
(* the method, pdf_tmp_path (the set of the one path, empty for None), the *)
(* HTTP status of the answer (0 until the call ends), the steps that ran   *)
(* with the way each ended, whether cleanup printed its warning, and the   *)
(* temporary files that were on disk when the call began.                  *)
(***************************************************************************)

\* os.path.splitext(filename)[1] of a file name without directories
splitext_ext(filename) ==
  LET dots == {i \in 2..Len(filename) : Char(filename, i) = "."}
  IN  IF dots = {} THEN "" ELSE SubSeq(filename, SetMax(dots), Len(filename))

\* max_size = 10 * 1024 * 1024
max_size == 10 * 1024 * 1024

\* the uploads: names with and without the extension of a PDF, sizes below,
\* at and above the limit
Uploads ==
  [filename : {"invoice.pdf", "INVOICE.PDF", "scan.png", "invoice", "a.pdf.exe"},
   size : {1024, 10485760, 10485761}]

\* _validate_file: the status of the HTTPException it raises, 0 if none
_validate_file(upload_file) ==
  IF upload_file.size > max_size THEN 400
  ELSE IF Lower(splitext_ext(upload_file.filename)) # ".pdf" THEN 400
  ELSE 0

\* the most temporary files left on disk before the service is set up anew
MaxLeft == 2

\* the name of a new temporary file
NewPath == Cardinality(files.tmp) + 1

\* the call after one more step: the step ran and ended with status exc
\* (0: it returned), the rest of the try block is skipped when it raised
Stepped(q, step, exc, next) ==
  [q EXCEPT !.done = Append(@, [step |-> step, exc |-> exc]),
            !.status = exc,
            !.pc = IF exc = 0 THEN next ELSE "finally"]

\* the call begins: pdf_tmp_path = None
process_invoice(upload_file) ==
  /\ requests' =
       <<[upload |-> upload_file, pc |-> "_validate_file", pdf_tmp_path |-> {},
          status |-> 0, done |-> <<>>, warned |-> FALSE, disk |-> files.tmp]>>
  /\ call' = [op |-> "process_invoice", args |-> <<upload_file>>]
  /\ UNCHANGED <<errors, passes, out, raised, result, text, images, runs, held, files>>

\* Step 1: self._validate_file(upload_file)
ValidateFile ==
  /\ requests[1].pc = "_validate_file"
  /\ requests' =
       <<Stepped(requests[1], "_validate_file", _validate_file(requests[1].upload),
                 "_save_uploaded_file")>>
  /\ UNCHANGED <<errors, passes, call, out, raised, result, text, images, runs, held, files>>

\* Step 2: pdf_tmp_path = self._save_uploaded_file(upload_file).  The
\* temporary file is created and written; a failure of the read or the write
\* leaves the file and raises HTTPException 500
SaveUploadedFile(created, exc) ==
  /\ requests[1].pc = "_save_uploaded_file"
  /\ created \/ exc = 500
  /\ requests' =
       <<[Stepped(requests[1], "_save_uploaded_file", exc, "_validate_pdf_structure")
            EXCEPT !.pdf_tmp_path = IF exc = 0 THEN {NewPath} ELSE {}]>>
  /\ files' = IF created THEN [files EXCEPT !.tmp = @ \cup {NewPath}] ELSE files
  /\ UNCHANGED <<errors, passes, call, out, raised, result, text, images, runs, held>>

\* Steps 3, 4 and 6: _validate_pdf_structure (HTTPException 400, or an
\* exception of the renderer, answered with 500), _extract_data
\* (HTTPException 500) and _validate_data (an exception of the validator,
\* answered with 500)
LaterStep(step, exc, next) ==
  /\ requests[1].pc = step
  /\ requests' = <<Stepped(requests[1], step, exc, next)>>
  /\ UNCHANGED <<errors, passes, call, out, raised, result, text, images, runs, held, files>>

\* Step 7: the summary and `return response'
Returned ==
  /\ requests[1].pc = "return"
  /\ requests' =
       <<[requests[1] EXCEPT !.status = 200, !.pc = "finally",
                             !.done = Append(@, [step |-> "return", exc |-> 0])]>>
  /\ UNCHANGED <<errors, passes, call, out, raised, result, text, images, runs, held, files>>

\* the cleanup made only when the method returns its response
FinallyOnReturn(q, removed) ==
  /\ requests' =
       <<[q EXCEPT !.pc = "ended",
                   !.warned = q.status = 200 /\ q.pdf_tmp_path # {} /\ ~removed,
                   !.done = IF q.status = 200 /\ q.pdf_tmp_path # {}
                              THEN Append(@, [step |-> "_cleanup_temp_file", exc |-> 0])
                              ELSE @]>>
  /\ files' = IF q.status = 200 THEN Cleaned(files, q.pdf_tmp_path, removed) ELSE files

\* `finally: if pdf_tmp_path: self._cleanup_temp_file(pdf_tmp_path)':
\* os.remove of the file, or the warning when os.remove raised
FinallyBlock(q, removed) ==
  /\ requests' =
       <<[q EXCEPT !.pc = "ended",
                   !.warned = q.pdf_tmp_path # {} /\ ~removed,
                   !.done = IF q.pdf_tmp_path # {}
                              THEN Append(@, [step |-> "_cleanup_temp_file", exc |-> 0])
                              ELSE @]>>
  /\ files' = Cleaned(files, q.pdf_tmp_path, removed)

Finally(removed) ==
  /\ requests[1].pc = "finally"
  /\ FinallyBlock(requests[1], removed)
  /\ UNCHANGED <<errors, passes, call, out, raised, result, text, images, runs, held>>

\* the answer was sent; the service is set up anew when too many temporary
\* files were left
Answered30 ==
  /\ requests[1].pc = "ended"
  /\ requests' = <<>>
  /\ files' = IF Cardinality(files.tmp) >= MaxLeft THEN NoFiles ELSE files
  /\ call' = [op |-> "__init__", args |-> <<>>]
  /\ UNCHANGED <<errors, passes, out, raised, result, text, images, runs, held>>

NextUpload ==
  \/ requests = <<>> /\ \E upload_file \in Uploads : process_invoice(upload_file)
  \/ requests # <<>> /\ ValidateFile
  \/ requests # <<>> /\ \E created \in BOOLEAN, exc \in {0, 500} :
       SaveUploadedFile(created, exc)
  \/ requests # <<>> /\ \E exc \in {0, 400, 500} :
       LaterStep("_validate_pdf_structure", exc, "_extract_data")
  \/ requests # <<>> /\ \E exc \in {0, 500} :
       LaterStep("_extract_data", exc, "_validate_data")
  \/ requests # <<>> /\ \E exc \in {0, 500} :
       LaterStep("_validate_data", exc, "return")
  \/ requests # <<>> /\ Returned
  \/ requests # <<>> /\ \E removed \in BOOLEAN : Finally(removed)
  \/ requests # <<>> /\ Answered30

SpecUpload == Init /\ [][NextUpload]_vars


\* a call of process_invoice is in progress or has just ended
InCall == requests # <<>>
CallEnded == InCall /\ requests[1].pc = "ended"

\* the upload is one _validate_file must reject: not a .pdf, or larger than
\* 10 MB
PdfNames == {"invoice.pdf", "INVOICE.PDF"}
Rejected(upload_file) ==
  upload_file.filename \notin PdfNames \/ upload_file.size > 10485760

\* a rejected upload is answered with HTTP 400 after _validate_file alone,
\* with the temporary files on disk as they were when the call began
RejectedFirst ==
  InCall /\ Rejected(requests[1].upload) /\ requests[1].done # <<>> =>
    /\ requests[1].status = 400
    /\ requests[1].done = <<[step |-> "_validate_file", exc |-> 400]>>
    /\ files.tmp = requests[1].disk

\* _extract_data runs only after _validate_file and _save_uploaded_file
\* returned
ExtractionLast ==
  InCall =>
    \A n \in DOMAIN requests[1].done :
      requests[1].done[n].step = "_extract_data" =>
        /\ n > 2
        /\ requests[1].done[1] = [step |-> "_validate_file", exc |-> 0]
        /\ requests[1].done[2] = [step |-> "_save_uploaded_file", exc |-> 0]
        /\ requests[1].pdf_tmp_path # {}

\* C30 as stated: once the upload was saved to a temporary file, that file
\* is removed before the call ends, on every path; a file rejected by
\* _validate_file is rejected with HTTP 400 before any temporary file is
\* created; extraction never runs before the file validation and the save
\* have succeeded.
C30_FileRemoved ==
  /\ CallEnded /\ requests[1].pdf_tmp_path # {} =>
       requests[1].pdf_tmp_path \cap files.tmp = {}
  /\ RejectedFirst
  /\ ExtractionLast

\* C30, amended: once the upload was saved to a temporary file,
\* _cleanup_temp_file is called for that file, once, as the last step before
\* the call ends, on every path, and the file is gone when the call ends
\* unless os.remove failed, which is only printed as a warning; a file
\* rejected by _validate_file is rejected with HTTP 400 before any temporary
\* file is created; extraction never runs before the file validation and the
\* save have succeeded.
C30_CleanupAttempted ==
  /\ CallEnded /\ requests[1].pdf_tmp_path # {} =>
       /\ requests[1].done[Len(requests[1].done)].step = "_cleanup_temp_file"
       /\ Cardinality({n \in DOMAIN requests[1].done :
                         requests[1].done[n].step = "_cleanup_temp_file"}) = 1
       /\ requests[1].pdf_tmp_path \cap files.tmp = {} <=> ~requests[1].warned
  /\ RejectedFirst
  /\ ExtractionLast

\* a call that saved the upload ended with HTTP 500 from a later step and
\* its temporary file removed
C30_Witness ==
  /\ CallEnded
  /\ requests[1].pdf_tmp_path # {}
  /\ requests[1].status = 500
  /\ \E n \in DOMAIN requests[1].done :
       requests[1].done[n] = [step |-> "_extract_data", exc |-> 500]
  /\ requests[1].pdf_tmp_path \cap files.tmp = {}
  /\ ~requests[1].warned

====
